---- MODULE Spec2Model ----
(***************************************************************************)
(* Model of the authentication and user-account core of the PERN template  *)
(* backend: the user store (UserRepository over the users table), the      *)
(* UserService and AuthService business layers, the JWT helpers and the    *)
(* authenticateToken middleware.                                           *)
(*                                                                         *)
(* Every request is an async handler; it occupies one entry of `slot` and  *)
(* advances one await point at a time, so that handlers of concurrent      *)
(* requests interleave exactly at their storage accesses.                  *)
(*                                                                         *)
(* The specifications share the state and the actions:                     *)
(*   Spec         the services over a store that answers every call;       *)
(*   SpecOutage   Spec plus storage calls answered by a connection error;  *)
(*   SpecGate     the middlewares in front of the private routes, with the *)
(*                registrations, deletions and logouts that feed them;     *)
(*   SpecEnv      authenticateToken in a process started with or without   *)
(*                JWT_SECRET;                                              *)
(*   SpecRoutes   DELETE /api/users/:id through the mounted users router;  *)
(*   SpecAccount  the writing user routes with verifyEmail and             *)
(*                getUserStats;                                            *)
(*   SpecQuery    the listing over tables of kept and deleted rows;        *)
(*   SpecStrength validatePasswordStrength over composed passwords;        *)
(*   SpecRegistry SimpleRegistry.register and applyAll.                    *)
(*                                                                         *)
(* Representation choices                                                  *)
(*   - strings that the code inspects (emails, error messages, password    *)
(*     hashes) are sequences: emails are sequences of characters, error    *)
(*     messages sequences of words, a bcrypt digest is the "$2b$" marker   *)
(*     followed by the hashed value;                                       *)
(*   - user ids: n >= 1 is a UUID-shaped id (the n-th generated row id),   *)
(*     0 is the empty string, -1 a non-empty string that is no UUID;       *)
(*   - time is in whole seconds (the JWT NumericDate unit).                *)
(***************************************************************************)
EXTENDS Integers, Sequences, FiniteSets, TLC

\* ------------------------------------------------------------------ bounds
MaxUsers == 2
NProcs == 2
MaxNow == 1
MaxWallet == 1
MaxRequests == 3
\* the default token lifetime "24h", scaled to the model's clock
DefaultExpiresIn == 1
MaxPieces == 3
MaxRows == 3

Procs == 1..NProcs

\* ------------------------------------------------------------ plain values
NullTime == 0 - 1
UndefinedTime == 0 - 2
NoExp == 0 - 1
EmptyId == 0
NotUuidId == 0 - 1
EmptyStr == << >>

\* char-level model of String.prototype.toLowerCase
UpperLetters ==
  <<"A", "B", "C", "D", "E", "F", "G", "H", "I", "J", "K", "L", "M",
    "N", "O", "P", "Q", "R", "S", "T", "U", "V", "W", "X", "Y", "Z">>

LowerLetters ==
  <<"a", "b", "c", "d", "e", "f", "g", "h", "i", "j", "k", "l", "m",
    "n", "o", "p", "q", "r", "s", "t", "u", "v", "w", "x", "y", "z">>

LowerOf ==
  [c \in {UpperLetters[i] : i \in 1..26} |->
     LowerLetters[CHOOSE i \in 1..26 : UpperLetters[i] = c]]

LowerChar(c) == IF c \in DOMAIN LowerOf THEN LowerOf[c] ELSE c

toLowerCase(s) == [i \in 1..Len(s) |-> LowerChar(s[i])]

RECURSIVE trimStart(_)
trimStart(s) == IF s # << >> /\ Head(s) = " " THEN trimStart(Tail(s)) ELSE s

RECURSIVE trimEnd(_)
trimEnd(s) ==
  IF s # << >> /\ s[Len(s)] = " " THEN trimEnd(SubSeq(s, 1, Len(s) - 1)) ELSE s

trim(s) == trimEnd(trimStart(s))

\* email.toLowerCase().trim(): the column transformer and the lookups
normalizeEmail(e) == trim(toLowerCase(e))

\* String.prototype.includes on word sequences
includes(msg, sub) ==
  \E i \in 1..(Len(msg) + 1) :
    /\ i + Len(sub) - 1 <= Len(msg)
    /\ SubSeq(msg, i, i + Len(sub) - 1) = sub

\* --------------------------------------------------------- error messages
MsgEmailExists == <<"A", "user", "with", "this", "email", "already", "exists">>
MsgUnderage == <<"User", "must", "be", "at", "least", "13", "years", "old">>
MsgInvalidId == <<"Invalid", "user", "ID", "format">>
MsgUserNotFound == <<"User", "not", "found">>
MsgDeleteFailed == <<"Failed", "to", "delete", "user">>
MsgChangePwFailed == <<"Failed", "to", "change", "password">>
MsgInvalidCredentials == <<"Invalid", "email", "or", "password">>
MsgDeactivated == <<"Account", "is", "deactivated">>
MsgRepoEmailExists == <<"Email", "already", "exists">>
MsgTypeError ==
  <<"Cannot", "read", "properties", "of", "undefined", "(reading", "'id')">>
MsgNoSecret == <<"JWT_SECRET", "is", "not", "configured">>
MsgInvalidOrExpired == <<"Invalid", "or", "expired", "token">>
MsgRefreshPrefix == <<"Unable", "to", "refresh", "token:">>
\* the error of the database driver when the server cannot be reached
MsgConnRefused == <<"connect", "ECONNREFUSED", "127.0.0.1:5432">>

\* ------------------------------------------------------- credential hasher
\* bcrypt.hash(value, 12): a digest carries the "$2b$" marker; the salt is
\* not represented
bcryptHash(value) == <<"$2b$">> \o value

\* bcrypt.compare(candidate, digest)
bcryptCompare(candidate, digest) == digest = bcryptHash(candidate)

\* ------------------------------------------------------------- input sets
RawEmails == {<<"a">>, <<" ", "A">>, <<"b">>}
NormalizedEmails == {normalizeEmail(e) : e \in RawEmails}
Passwords == {<<"p">>, <<"q">>}
\* firstName as given at creation
FirstNames == {<<"n">>}
LastNames == {<<"l">>}

\* a date of birth is year/month/day; NoDob is an absent dateOfBirth
NoDob == [y |-> 0, m |-> 0, d |-> 0]
Today == [y |-> 2026, m |-> 6, d |-> 15]

\* the optional members of CreateUserDto / UpdateUserDto besides firstName:
\* `supplied` names the members that are not undefined; a nullable member
\* is a set, empty for null or the empty string
NoDto ==
  [supplied |-> {}, lastName |-> EmptyStr, dateOfBirth |-> {}, gender |-> {},
   phoneNumber |-> {}]

\* the body of POST /api/users
CreateDto(lastName, dob) ==
  [NoDto EXCEPT !.supplied = {"lastName"} \cup (IF dob = NoDob THEN {} ELSE {"dateOfBirth"}),
                !.lastName = lastName,
                !.dateOfBirth = IF dob = NoDob THEN {} ELSE {dob}]

\* what AuthService.register hands to createUser
RegisterDto(lastName) ==
  [NoDto EXCEPT !.supplied = {"lastName", "phoneNumber"}, !.lastName = lastName]

\* bodies of PUT /api/users/:id: firstName (a set, empty when not supplied)
\* and the other members
UpdateBodies ==
  { [firstName |-> {}, dto |-> NoDto] }
  \cup {[firstName |-> {n}, dto |-> NoDto] : n \in {<<"m">>}}
  \cup {[firstName |-> {}, dto |-> d] : d \in {
    [NoDto EXCEPT !.supplied = {"lastName", "dateOfBirth", "gender", "phoneNumber"},
                  !.lastName = <<"k">>,
                  !.dateOfBirth = {[y |-> 2013, m |-> 6, d |-> 15]},
                  !.gender = {"other"},
                  !.phoneNumber = {<<"5">>}],
    [NoDto EXCEPT !.supplied = {"dateOfBirth"},
                  !.dateOfBirth = {[y |-> 2013, m |-> 6, d |-> 16]}] }}

\* the query of GET /api/users as UserQuerySchema leaves it: page and limit
\* are numbers, search, isActive and gender are sets (empty when the member
\* is undefined), sortBy and sortOrder carry their defaults
NoQuery ==
  [page |-> 1, limit |-> 10, search |-> {}, isActive |-> {}, gender |-> {},
   sortBy |-> "createdAt", sortOrder |-> "desc"]

\* queries over every member: page and limit around their limits, a search
\* in the other case, a search holding the LIKE metacharacter "_", every
\* sort field and both directions
ControllerQueries ==
  {[page |-> page, limit |-> limit, search |-> search, isActive |-> isActive,
    gender |-> gender, sortBy |-> sortBy, sortOrder |-> sortOrder] :
     page \in 1..2, limit \in 1..2,
     search \in {{}, {<<"A">>}, {<<"a", "_">>}},
     isActive \in {{}, {TRUE}, {FALSE}}, gender \in {{}, {"other"}},
     sortBy \in {"createdAt", "firstName", "lastName", "email"},
     sortOrder \in {"asc", "desc"}}
  \cup {[NoQuery EXCEPT !.page = 0], [NoQuery EXCEPT !.limit = 0],
        [NoQuery EXCEPT !.limit = 101], [NoQuery EXCEPT !.search = {EmptyStr}]}

\* ------------------------------------------------------------------- state
VARIABLES
  users,      \* the users table: sequence of rows, row i has id i
  now,        \* the clock, in seconds
  jwtSecret,  \* env.JWT_SECRET ("" when not configured)
  wallet,     \* tokens handed out to clients and still held by them
  slot,       \* per in-flight request: handler, position, arguments, result
  nreq,       \* number of requests received so far
  auditLog,   \* the tokens whose logout was written to the console
  registry,   \* SimpleRegistry: the modules map (in insertion order) and isInitialized
  app         \* the routers mounted on the Express application, in order

vars == <<users, now, jwtSecret, wallet, slot, nreq, auditLog, registry, app>>

\* ----------------------------------------------------------- the JWT helpers
GarbageToken ==
  [kind |-> "garbage", userId |-> EmptyId, email |-> EmptyStr,
   iat |-> NoExp, nbf |-> NoExp, exp |-> NoExp, sig |-> ""]

\* jwt.sign(payload, secret, {expiresIn, issuer, audience})
jwtSign(userId, email, secret, expiresIn, t) ==
  [kind |-> "jwt", userId |-> userId, email |-> email,
   iat |-> t, nbf |-> NoExp, exp |-> t + expiresIn, sig |-> secret]

\* generateToken: {} when the secret is missing (it throws), else {token}
generateToken(userId, email, expiresIn, secret, t) ==
  IF secret = "" THEN {} ELSE {jwtSign(userId, email, secret, expiresIn, t)}

\* jwt.verify with the expiry instant itself still accepted
jwtVerifyLate(token, secret, t) ==
  IF token.kind # "jwt" THEN "JsonWebTokenError"
  ELSE IF token.sig # secret THEN "JsonWebTokenError"
  ELSE IF token.nbf # NoExp /\ token.nbf > t THEN "NotBeforeError"
  ELSE IF token.exp # NoExp /\ t > token.exp THEN "TokenExpiredError"
  ELSE "ok"

\* jwt.verify(token, secret): malformed, then signature, then not-before,
\* then expiry
jwtVerify(token, secret, t) ==
  IF token.kind # "jwt" THEN "JsonWebTokenError"
  ELSE IF token.sig # secret THEN "JsonWebTokenError"
  ELSE IF token.nbf # NoExp /\ token.nbf > t THEN "NotBeforeError"
  ELSE IF token.exp # NoExp /\ t >= token.exp THEN "TokenExpiredError"
  ELSE "ok"

\* jwt.decode(token): the payload without any check; {} for null
jwtDecode(token) == IF token.kind # "jwt" THEN {} ELSE {token}

\* decodeTokenInfo
decodeTokenInfo(token) == jwtDecode(token)

\* JavaScript truthiness of the payload members
TruthyId(id) == id # EmptyId
TruthyStr(s) == s # EmptyStr

\* AuthService.getTokenInfo
getTokenInfo(token, t) ==
  IF decodeTokenInfo(token) = {}
  THEN [userId |-> EmptyId, email |-> EmptyStr, exp |-> NoExp,
        isValid |-> FALSE, isExpired |-> TRUE]
  ELSE LET decoded == CHOOSE d \in decodeTokenInfo(token) : TRUE
           isExpired == IF decoded.exp # NoExp /\ decoded.exp # 0 THEN decoded.exp < t ELSE FALSE
       IN [userId |-> decoded.userId, email |-> decoded.email,
           exp |-> decoded.exp,
           isValid |-> ~isExpired /\ TruthyId(decoded.userId)
                                  /\ TruthyStr(decoded.email),
           isExpired |-> isExpired]

\* ------------------------------------------------------------ the user store
\* the password column is declared select: false: an entity loaded by a plain
\* find has no password member
withoutPassword(row) ==
  [id |-> row.id, email |-> row.email, firstName |-> row.firstName,
   lastName |-> row.lastName, dateOfBirth |-> row.dateOfBirth,
   gender |-> row.gender, phoneNumber |-> row.phoneNumber,
   isActive |-> row.isActive, isEmailVerified |-> row.isEmailVerified,
   emailVerifiedAt |-> row.emailVerifiedAt,
   lastLoginAt |-> row.lastLoginAt, createdAt |-> row.createdAt,
   updatedAt |-> row.updatedAt]

\* repository.findOne({where: {id, isActive: true}})
findById(store, id) ==
  {withoutPassword(store[i]) :
     i \in {j \in 1..Len(store) : store[j].id = id /\ store[j].isActive}}

\* repository.findOne({where: {email: normalised, isActive: true}})
findByEmail(store, email) ==
  {withoutPassword(store[i]) :
     i \in {j \in 1..Len(store) :
       store[j].email = normalizeEmail(email) /\ store[j].isActive}}

\* the order of characters in a text column, by code point
CharOrder == <<" ", "5", "A", "B", "L", "_", "a", "b", "k", "l", "m", "n">>
charRank(c) == CHOOSE i \in DOMAIN CharOrder : CharOrder[i] = c

RECURSIVE textLess(_, _)
textLess(a, b) ==
  IF b = << >> THEN FALSE
  ELSE IF a = << >> THEN TRUE
  ELSE IF Head(a) = Head(b) THEN textLess(Tail(a), Tail(b))
  ELSE charRank(Head(a)) < charRank(Head(b))

\* text ILIKE pattern: "%" stands for any run of characters, "_" for any
\* one character, every other character for itself in either case
RECURSIVE ilike(_, _)
ilike(text, pattern) ==
  IF pattern = << >> THEN text = << >>
  ELSE IF Head(pattern) = "%"
  THEN ilike(text, Tail(pattern))
       \/ (text # << >> /\ ilike(Tail(text), pattern))
  ELSE /\ text # << >>
       /\ Head(pattern) = "_"
          \/ LowerChar(Head(pattern)) = LowerChar(Head(text))
       /\ ilike(Tail(text), Tail(pattern))

\* the WHERE clause of findAll: isActive as asked, true when it is not
\* supplied; gender when it is supplied; the search, when it is a non-empty
\* string, as the pattern %search% on firstName, lastName or email
findAllWhere(row, query) ==
  /\ row.isActive = (IF query.isActive = {} THEN TRUE
                     ELSE CHOOSE b \in query.isActive : TRUE)
  /\ query.gender = {} \/ row.gender = query.gender
  /\ \A search \in query.search :
       \/ search = EmptyStr
       \/ LET pattern == <<"%">> \o search \o <<"%">>
          IN \/ ilike(row.firstName, pattern)
             \/ ilike(row.lastName, pattern)
             \/ ilike(row.email, pattern)

\* ORDER BY user.<sortBy> <sortOrder>: row a must come before row b
orderedBefore(a, b, query) ==
  LET less(x, y) ==
        CASE query.sortBy = "createdAt" -> x.createdAt < y.createdAt
          [] query.sortBy = "firstName" -> textLess(x.firstName, y.firstName)
          [] query.sortBy = "lastName" -> textLess(x.lastName, y.lastName)
          [] query.sortBy = "email" -> textLess(x.email, y.email)
  IN IF query.sortOrder = "asc" THEN less(a, b) ELSE less(b, a)

\* the orders in which the database may return the matching rows: every
\* arrangement that respects ORDER BY (rows with equal keys come in any order)
findAllOrders(store, query) ==
  LET matching == {i \in 1..Len(store) : findAllWhere(store[i], query)}
      n == Cardinality(matching)
  IN {f \in [1..n -> matching] :
        \A a, b \in 1..n :
          a < b => /\ f[a] # f[b]
                   /\ ~orderedBefore(store[f[b]], store[f[a]], query)}

\* a listing that skips page * limit rows
findAllSkippingPage(store, query) ==
  {LET total == Len(f)
       offset == query.page * query.limit
       last == IF offset + query.limit < total THEN offset + query.limit
               ELSE total
   IN [users |-> [i \in 1..(IF last > offset THEN last - offset ELSE 0) |->
                    withoutPassword(store[f[offset + i]])],
       total |-> total,
       totalPages |-> (total + query.limit - 1) \div query.limit] :
   f \in findAllOrders(store, query)}

\* UserRepository.findAll: the results getManyAndCount may return, one for
\* each order of the matching rows: the rows from offset (page - 1) * limit,
\* at most limit of them, the count of the matching rows and the page count
findAll(store, query) ==
  {LET total == Len(f)
       offset == (query.page - 1) * query.limit
       last == IF offset + query.limit < total THEN offset + query.limit
               ELSE total
   IN [users |-> [i \in 1..(IF last > offset THEN last - offset ELSE 0) |->
                    withoutPassword(store[f[offset + i]])],
       total |-> total,
       totalPages |-> (total + query.limit - 1) \div query.limit] :
   f \in findAllOrders(store, query)}

\* UserRepository.countActive
countActive(store) ==
  Cardinality({i \in 1..Len(store) : store[i].isActive})

\* the login read: same filter, with the password column selected and
\* dateOfBirth, gender, phoneNumber, emailVerifiedAt and lastLoginAt not
\* selected
findByEmailWithPassword(store, email) ==
  {[store[i] EXCEPT !.lastLoginAt = UndefinedTime,
                    !.emailVerifiedAt = UndefinedTime,
                    !.dateOfBirth = {[y |-> 0 - 1, m |-> 0 - 1, d |-> 0 - 1]},
                    !.gender = {"undefined"},
                    !.phoneNumber = {<<"undefined">>}] :
     i \in {j \in 1..Len(store) :
       store[j].email = normalizeEmail(email) /\ store[j].isActive}}

\* an insert hook applied on top of an already hashed value
hashPasswordTwice(password) ==
  IF password # EmptyStr THEN bcryptHash(bcryptHash(password)) ELSE password

\* User.hashPassword (@BeforeInsert)
hashPassword(password) ==
  IF password # EmptyStr THEN bcryptHash(password) ELSE password

\* an insert that, on the email of a deactivated row, reactivates that row
\* instead of failing
InsertRowReviving(store, email, password, firstName, dto, t) ==
  IF \E i \in 1..Len(store) : store[i].email = normalizeEmail(email)
  THEN [err |-> EmptyStr,
        users |-> [i \in 1..Len(store) |->
                     IF store[i].email = normalizeEmail(email)
                     THEN [store[i] EXCEPT !.isActive = TRUE, !.updatedAt = t]
                     ELSE store[i]],
        user |-> {store[i] : i \in {j \in 1..Len(store) :
                                       store[j].email = normalizeEmail(email)}}]
  ELSE LET row == [id |-> Len(store) + 1, email |-> normalizeEmail(email),
                   password |-> hashPassword(password),
                   firstName |-> firstName, lastName |-> dto.lastName,
                   dateOfBirth |-> dto.dateOfBirth, gender |-> dto.gender,
                   phoneNumber |-> dto.phoneNumber, isActive |-> TRUE,
                   isEmailVerified |-> FALSE, emailVerifiedAt |-> NullTime,
                   lastLoginAt |-> NullTime, createdAt |-> t,
                   updatedAt |-> t]
       IN [err |-> EmptyStr, users |-> Append(store, row),
           user |-> {[row EXCEPT !.email = email]}]

\* the INSERT as the database executes it: the email column transformer
\* normalises the value and the unique index on email covers every row
InsertRow(store, email, password, firstName, dto, t) ==
  IF \E i \in 1..Len(store) : store[i].email = normalizeEmail(email)
  THEN [err |-> <<"duplicate", "key", "value", "violates", "unique",
                  "constraint">>,
        users |-> store, user |-> {}]
  ELSE LET row == [id |-> Len(store) + 1, email |-> normalizeEmail(email),
                   password |-> hashPassword(password),
                   firstName |-> firstName, lastName |-> dto.lastName,
                   dateOfBirth |-> dto.dateOfBirth, gender |-> dto.gender,
                   phoneNumber |-> dto.phoneNumber, isActive |-> TRUE,
                   isEmailVerified |-> FALSE, emailVerifiedAt |-> NullTime,
                   lastLoginAt |-> NullTime, createdAt |-> t,
                   updatedAt |-> t]
       IN [err |-> EmptyStr, users |-> Append(store, row),
           user |-> {[row EXCEPT !.email = email]}]

\* the catch block of UserRepository.create and UserRepository.update: a
\* unique violation becomes 'Email already exists', any other error is
\* rethrown as it is
repositoryRethrow(err) ==
  IF includes(err, <<"duplicate", "key">>) THEN MsgRepoEmailExists ELSE err

\* create without the remapping of the unique violation
createUnmapped(store, email, password, firstName, dto, t) ==
  InsertRow(store, email, password, firstName, dto, t)

\* UserRepository.create
create(store, email, password, firstName, dto, t) ==
  LET r == InsertRow(store, email, password, firstName, dto, t)
  IN IF r.err # EmptyStr
     THEN [r EXCEPT !.err = repositoryRethrow(r.err)]
     ELSE r

\* an UPDATE that writes every member of the DTO, the undefined ones as null
applyUpdateDataNulling(row, firstName, dto, t) ==
  [row EXCEPT
     !.updatedAt = t,
     !.firstName = IF firstName # {} THEN CHOOSE n \in firstName : TRUE ELSE @,
     !.lastName = IF "lastName" \in dto.supplied THEN dto.lastName ELSE @,
     !.dateOfBirth = dto.dateOfBirth,
     !.gender = dto.gender,
     !.phoneNumber = dto.phoneNumber]

\* updateData as UserRepository.update builds it, applied to a row: only the
\* members that are not undefined are written (firstName is a set: empty
\* when not supplied), updatedAt always
applyUpdateData(row, firstName, dto, t) ==
  [row EXCEPT
     !.updatedAt = t,
     !.firstName = IF firstName # {} THEN CHOOSE n \in firstName : TRUE ELSE @,
     !.lastName = IF "lastName" \in dto.supplied THEN dto.lastName ELSE @,
     !.dateOfBirth = IF "dateOfBirth" \in dto.supplied THEN dto.dateOfBirth ELSE @,
     !.gender = IF "gender" \in dto.supplied THEN dto.gender ELSE @,
     !.phoneNumber = IF "phoneNumber" \in dto.supplied THEN dto.phoneNumber ELSE @]

\* UserRepository.update, its UPDATE ... WHERE id AND isActive
update(store, id, firstName, dto, t) ==
  LET hit == {i \in 1..Len(store) : store[i].id = id /\ store[i].isActive}
  IN [users |-> [i \in 1..Len(store) |->
                   IF i \in hit
                   THEN applyUpdateData(store[i], firstName, dto, t)
                   ELSE store[i]],
      affected |-> Cardinality(hit)]

\* a delete that removes the row instead of flagging it
softDeleteRemoving(store, id, t) ==
  LET hit == {i \in 1..Len(store) : store[i].id = id /\ store[i].isActive}
  IN [users |-> SelectSeq(store, LAMBDA row : ~(row.id = id /\ row.isActive)),
      affected |-> Cardinality(hit)]

\* UserRepository.softDelete: UPDATE ... WHERE id AND isActive
softDelete(store, id, t) ==
  LET hit == {i \in 1..Len(store) : store[i].id = id /\ store[i].isActive}
  IN [users |-> [i \in 1..Len(store) |->
                   IF i \in hit
                   THEN [store[i] EXCEPT !.isActive = FALSE, !.updatedAt = t]
                   ELSE store[i]],
      affected |-> Cardinality(hit)]

\* UserRepository.updateLastLogin: UPDATE ... WHERE id
updateLastLogin(store, id, t) ==
  [i \in 1..Len(store) |->
     IF store[i].id = id
     THEN [store[i] EXCEPT !.lastLoginAt = t, !.updatedAt = t]
     ELSE store[i]]

\* UserRepository.changePassword: UPDATE ... WHERE id AND isActive
repositoryChangePassword(store, id, hashedPassword, t) ==
  LET hit == {i \in 1..Len(store) : store[i].id = id /\ store[i].isActive}
  IN [users |-> [i \in 1..Len(store) |->
                   IF i \in hit
                   THEN [store[i] EXCEPT !.password = hashedPassword,
                                         !.updatedAt = t]
                   ELSE store[i]],
      affected |-> Cardinality(hit)]

\* a verification that raises the flag without recording the instant
repositoryVerifyEmailFlagOnly(store, id, t) ==
  LET hit == {i \in 1..Len(store) : store[i].id = id /\ store[i].isActive}
  IN [users |-> [i \in 1..Len(store) |->
                   IF i \in hit
                   THEN [store[i] EXCEPT !.isEmailVerified = TRUE, !.updatedAt = t]
                   ELSE store[i]],
      affected |-> Cardinality(hit)]

\* UserRepository.verifyEmail: UPDATE ... WHERE id AND isActive
repositoryVerifyEmail(store, id, t) ==
  LET hit == {i \in 1..Len(store) : store[i].id = id /\ store[i].isActive}
  IN [users |-> [i \in 1..Len(store) |->
                   IF i \in hit
                   THEN [store[i] EXCEPT !.isEmailVerified = TRUE,
                                         !.emailVerifiedAt = t,
                                         !.updatedAt = t]
                   ELSE store[i]],
      affected |-> Cardinality(hit)]

\* UserRepository.findRecentUsers(hours): the where clause compares
\* createdAt for equality with the instant `hours` ago
findRecentUsers(store, hours, t) ==
  SelectSeq([i \in 1..Len(store) |-> withoutPassword(store[Len(store) + 1 - i])],
            LAMBDA row : row.isActive /\ row.createdAt = t - hours * 3600)

\* ---------------------------------------------------------- UserService parts
\* UserService.isValidUUID
isValidUUID(id) == id >= 1

\* UserService.calculateAge against today's date
calculateAge(dob) ==
  LET age == Today.y - dob.y
      monthDiff == Today.m - dob.m
  IN IF monthDiff < 0 \/ (monthDiff = 0 /\ Today.d < dob.d)
     THEN age - 1 ELSE age

\* a response mapping that passes the loaded entity on as it is
mapToResponseEntity(user) == user

\* UserService.mapToResponseDto: the password member is not copied
mapToResponseDto(user) ==
  [id |-> user.id, email |-> user.email, firstName |-> user.firstName,
   lastName |-> user.lastName, dateOfBirth |-> user.dateOfBirth,
   gender |-> user.gender, phoneNumber |-> user.phoneNumber,
   isActive |-> user.isActive, isEmailVerified |-> user.isEmailVerified,
   emailVerifiedAt |-> user.emailVerifiedAt,
   lastLoginAt |-> user.lastLoginAt, createdAt |-> user.createdAt,
   updatedAt |-> user.updatedAt]

\* UserService.createUser, after the repository call: the try/catch mapping
createUserResult(r) ==
  IF r.err = EmptyStr
  THEN [ok |-> TRUE, msg |-> EmptyStr,
        user |-> {mapToResponseDto(u) : u \in r.user}]
  ELSE IF includes(r.err, MsgRepoEmailExists)
  THEN [ok |-> FALSE, msg |-> MsgEmailExists, user |-> {}]
  ELSE [ok |-> FALSE, msg |-> <<"Failed", "to", "create", "user.", "Please", "try", "again.">>, user |-> {}]

\* UserService.updateUser, after the repository call: r.err is the error the
\* repository threw (empty when none), r.user what it returned (empty for
\* null); the throw for null happens inside the try
updateUserResult(r) ==
  LET err == IF r.err # EmptyStr THEN r.err
             ELSE IF r.user = {} THEN <<"Failed", "to", "update", "user">>
             ELSE EmptyStr
  IN IF err = EmptyStr
     THEN [ok |-> TRUE, msg |-> EmptyStr,
           user |-> {mapToResponseDto(u) : u \in r.user}]
     ELSE IF includes(err, MsgRepoEmailExists)
     THEN [ok |-> FALSE, msg |-> MsgEmailExists, user |-> {}]
     ELSE [ok |-> FALSE, msg |-> <<"Failed", "to", "update", "user.", "Please", "try", "again.">>, user |-> {}]

\* authenticateUser telling a wrong password apart from an unknown email
authenticateUserCheckTelling(user, password) ==
  IF ~bcryptCompare(password, user.password)
  THEN <<"Invalid", "password">>
  ELSE IF ~user.isActive THEN MsgDeactivated
  ELSE EmptyStr

\* UserService.authenticateUser, after the lookup returned `user`:
\* comparePassword, then the isActive test on the loaded entity
authenticateUserCheck(user, password) ==
  IF ~bcryptCompare(password, user.password) THEN MsgInvalidCredentials
  ELSE IF ~user.isActive THEN MsgDeactivated
  ELSE EmptyStr

\* errorHandler: the status chosen from the message of a (non-Zod) error, in
\* the order of its tests
errorHandler(msg) ==
  IF includes(msg, <<"not", "found">>) THEN 404
  ELSE IF \/ includes(msg, <<"already", "exists">>)
          \/ includes(msg, <<"already", "in", "use">>)
          \/ includes(msg, <<"duplicate">>) THEN 409
  ELSE IF \/ includes(msg, <<"Invalid">>)
          \/ includes(msg, <<"required">>)
          \/ includes(msg, <<"must", "be">>) THEN 400
  ELSE IF \/ includes(msg, <<"Unauthorized">>)
          \/ includes(msg, <<"Invalid", "email", "or", "password">>) THEN 401
  ELSE IF \/ includes(msg, <<"Forbidden">>)
          \/ includes(msg, <<"Access", "denied">>) THEN 403
  ELSE IF \/ includes(msg, <<"connection">>)
          \/ includes(msg, <<"ECONNREFUSED">>) THEN 503
  ELSE 500

\* ------------------------------------------------------ requests in flight
NoRes ==
  [ok |-> FALSE, msg |-> EmptyStr, user |-> {}, token |-> {}, info |-> {},
   status |-> 0, code |-> "", next |-> FALSE, reqUser |-> {}]

IdleSlot ==
  [op |-> "none", pc |-> "idle", step |-> "none", id |-> EmptyId,
   email |-> EmptyStr, password |-> EmptyStr, newPassword |-> EmptyStr,
   firstName |-> {}, dto |-> NoDto, query |-> NoQuery, totalActive |-> 0, storeErr |-> EmptyStr, header |-> "none", token |-> GarbageToken, snap |-> {}, tokenInfo |-> {},
   res |-> NoRes]

Fail(msg) == [NoRes EXCEPT !.msg = msg]
Succeed(userSet, tokenSet) ==
  [NoRes EXCEPT !.ok = TRUE, !.user = userSet, !.token = tokenSet]

Done(s, step, res) == [s EXCEPT !.pc = "done", !.step = step, !.res = res]

\* ids a caller can put in a path or a payload
IdInputs == (1..MaxUsers) \cup {NotUuidId}

\* tokens a client can present: the ones it was given, forgeries signed
\* with another key, and undecodable text
ForgedTokens ==
  {[kind |-> "jwt", userId |-> u, email |-> e, iat |-> 0, nbf |-> NoExp,
    exp |-> x, sig |-> "forged"] :
     u \in {1, EmptyId, NotUuidId},
     e \in {EmptyStr, <<"a">>},
     x \in {NoExp, 1}}

\* a token signed with the process secret by another issuer, carrying a
\* not-before claim one second after the start
PostdatedTokens ==
  {[kind |-> "jwt", userId |-> 1, email |-> <<"a">>, iat |-> 0, nbf |-> 1,
    exp |-> NoExp, sig |-> jwtSecret]}

Presentable == wallet \cup ForgedTokens \cup PostdatedTokens \cup {GarbageToken}

\* ------------------------------------------------- AuthService result shaping
\* a register that hands out a token whatever createUser answered
registerResultAnyway(svc, secret, t) ==
  IF ~svc.ok
  THEN [Fail(svc.msg) EXCEPT
          !.token = generateToken(EmptyId, EmptyStr, DefaultExpiresIn, secret, t)]
  ELSE LET user == CHOOSE u \in svc.user : TRUE
       IN Succeed({user},
                  generateToken(user.id, user.email, DefaultExpiresIn, secret, t))

\* AuthService.register, after createUser returned: generateToken and the
\* response; an error thrown inside the try is rethrown with its message
registerResult(svc, secret, t) ==
  IF ~svc.ok THEN Fail(svc.msg)
  ELSE LET user == CHOOSE u \in svc.user : TRUE
           token == generateToken(user.id, user.email, DefaultExpiresIn, secret, t)
       IN IF token = {} THEN Fail(MsgNoSecret)
          ELSE Succeed({user}, token)

\* AuthService.login, after authenticateUser returned authResult: the
\* response is built from authResult.user and authResult.token
loginResult(authResult) ==
  IF "user" \notin DOMAIN authResult THEN Fail(MsgTypeError)
  ELSE Succeed({authResult.user},
               IF "token" \in DOMAIN authResult THEN {authResult.token} ELSE {})

\* refreshing straight from the decoded payload, with no user lookup
refreshTokenFromPayload(tokenInfo, found, secret, t) ==
  LET token == generateToken(tokenInfo.userId, tokenInfo.email,
                             DefaultExpiresIn, secret, t)
  IN IF token = {} THEN Fail(MsgRefreshPrefix \o MsgNoSecret)
     ELSE Succeed({}, token)

\* AuthService.refreshToken, after getUserById(tokenInfo.userId) was read
refreshTokenResult(tokenInfo, found, secret, t) ==
  IF found = {} THEN Fail(MsgRefreshPrefix \o MsgUserNotFound)
  ELSE LET user == mapToResponseDto(CHOOSE u \in found : TRUE)
       IN IF ~user.isActive THEN Fail(MsgRefreshPrefix \o <<"User", "account", "is", "deactivated">>)
          ELSE LET token == generateToken(user.id, user.email,
                                          DefaultExpiresIn, secret, t)
               IN IF token = {} THEN Fail(MsgRefreshPrefix \o MsgNoSecret)
                  ELSE Succeed({}, token)

\* ------------------------------------------------------- the module registry
UsersModule ==
  [name |-> "UsersModule", path |-> "/api/users", router |-> "router"]

AuthModule ==
  [name |-> "AuthModule", path |-> "/api/auth", router |-> "router"]

\* what a module constructor may hand to register; "undefined" stands for a
\* router that express refuses to mount
ModuleInfos ==
  [name : {"UsersModule", "AuthModule", "OtherModule"},
   path : {"/api/users", "/api/auth"},
   router : {"router", "undefined"}]

\* Map.has
modulesHas(modules, name) == \E i \in 1..Len(modules) : modules[i].name = name

\* Map.set without the has test: the entry of an existing key is replaced
\* in place
registerOverwriting(reg, moduleInfo) ==
  IF modulesHas(reg.modules, moduleInfo.name)
  THEN [reg EXCEPT !.modules =
          [i \in 1..Len(reg.modules) |->
             IF reg.modules[i].name = moduleInfo.name
             THEN moduleInfo ELSE reg.modules[i]]]
  ELSE [reg EXCEPT !.modules = Append(@, moduleInfo)]

\* SimpleRegistry.register: the registry after the call
registerModule(reg, moduleInfo) ==
  IF modulesHas(reg.modules, moduleInfo.name)
  THEN reg
  ELSE [reg EXCEPT !.modules = Append(@, moduleInfo)]

\* app.use(module.path, module.router) inside the try block: a router that
\* is no function makes express throw, the catch logs and goes on
appUse(mounted, module) ==
  IF module.router = "undefined" THEN mounted ELSE Append(mounted, module)

\* modules.forEach(...)
RECURSIVE mountAll(_, _)
mountAll(mounted, modules) ==
  IF modules = << >> THEN mounted
  ELSE mountAll(appUse(mounted, Head(modules)), Tail(modules))

\* ------------------------------------------------------------------ actions
Init ==
  /\ users = << >>
  /\ now = 0
  /\ jwtSecret = "k"
  /\ wallet = {}
  /\ nreq = 0
  /\ auditLog = {}
  /\ registry = [modules |-> <<UsersModule, AuthModule>>, isInitialized |-> TRUE]
  /\ app = <<UsersModule, AuthModule>>
  /\ slot = [p \in Procs |-> IdleSlot]

\* a finished handler's response is delivered before any other step is taken
\* (delivery touches nothing the other handlers read)
NoneDone == \A q \in Procs : slot[q].pc # "done"

\* handler instances are interchangeable: a new request is taken by the
\* first idle one
Free(p) ==
  /\ slot[p].pc = "idle"
  /\ \A q \in Procs : q < p => slot[q].pc # "idle"

\* rows that in-flight creations may still insert
PendingCreates == Cardinality({q \in Procs : slot[q].pc = "create"})

\* UserService.createUser up to its first storage answer: findByEmail, the
\* duplicate test and the minimum-age test
createUserBegin(p, op, email, password, firstName, dto) ==
  LET s == [IdleSlot EXCEPT !.op = op, !.email = email, !.password = password,
                            !.firstName = {firstName}, !.dto = dto]
      dob == IF dto.dateOfBirth = {} THEN NoDob
             ELSE CHOOSE d \in dto.dateOfBirth : TRUE
  IN slot' = [slot EXCEPT ![p] =
       IF findByEmail(users, email) # {}
       THEN Done(s, "findByEmail", Fail(MsgEmailExists))
       ELSE IF dob # NoDob /\ calculateAge(dob) < 13
       THEN Done(s, "findByEmail", Fail(MsgUnderage))
       ELSE [s EXCEPT !.pc = "create", !.step = "findByEmail"]]

\* POST /api/users -> UserService.createUser
createUser(p) ==
  /\ NoneDone
  /\ Free(p)
  /\ nreq < MaxRequests /\ nreq' = nreq + 1
  /\ Len(users) + PendingCreates < MaxUsers
  /\ \E email \in RawEmails, password \in Passwords,
        firstName \in FirstNames, lastName \in LastNames,
        dob \in {NoDob, [y |-> 2013, m |-> 6, d |-> 16]} :
       createUserBegin(p, "createUser", email, password, firstName,
                       CreateDto(lastName, dob))
  /\ UNCHANGED <<app, registry, auditLog, users, now, jwtSecret, wallet>>

\* POST /api/auth/register -> AuthService.register (the RegisterSchema has
\* normalised the email; no date of birth is passed on, phoneNumber is null)
register(p) ==
  /\ NoneDone
  /\ Free(p)
  /\ nreq < MaxRequests /\ nreq' = nreq + 1
  /\ Len(users) + PendingCreates < MaxUsers
  /\ \E email \in NormalizedEmails, password \in Passwords,
        firstName \in FirstNames, lastName \in LastNames :
       createUserBegin(p, "register", email, password, firstName,
                       RegisterDto(lastName))
  /\ UNCHANGED <<app, registry, auditLog, users, now, jwtSecret, wallet>>

\* the second await of createUser: UserRepository.create, then the result
\* mapping of createUser and, for register, the token
createUser_create(p) ==
  /\ NoneDone
  /\ slot[p].pc = "create"
  /\ LET s == slot[p]
         r == create(users, s.email, s.password,
                     CHOOSE n \in s.firstName : TRUE, s.dto, now)
         svc == createUserResult(r)
         res == IF s.op = "register" THEN registerResult(svc, jwtSecret, now)
                ELSE IF svc.ok THEN Succeed(svc.user, {}) ELSE Fail(svc.msg)
     IN /\ users' = r.users
        /\ slot' = [slot EXCEPT ![p] = Done(s, "create", res)]
  /\ UNCHANGED <<app, registry, auditLog, now, jwtSecret, wallet, nreq>>

\* UserService.authenticateUser up to its first storage answer
authenticateUserBegin(p, op, email, password) ==
  LET s == [IdleSlot EXCEPT !.op = op, !.email = email, !.password = password]
      found == findByEmailWithPassword(users, email)
  IN slot' = [slot EXCEPT ![p] =
       IF found = {}
       THEN Done(s, "findByEmailWithPassword", Fail(MsgInvalidCredentials))
       ELSE [s EXCEPT !.pc = "comparePassword",
                      !.step = "findByEmailWithPassword", !.snap = found]]

\* POST /api/users/login -> UserService.authenticateUser
authenticateUser(p) ==
  /\ NoneDone
  /\ Free(p)
  /\ nreq < MaxRequests /\ nreq' = nreq + 1
  /\ \E email \in RawEmails, password \in Passwords :
       authenticateUserBegin(p, "authenticateUser", email, password)
  /\ UNCHANGED <<app, registry, auditLog, users, now, jwtSecret, wallet>>

\* POST /api/auth/login -> AuthService.login
login(p) ==
  /\ NoneDone
  /\ Free(p)
  /\ nreq < MaxRequests /\ nreq' = nreq + 1
  /\ \E email \in NormalizedEmails, password \in Passwords :
       authenticateUserBegin(p, "login", email, password)
  /\ UNCHANGED <<app, registry, auditLog, users, now, jwtSecret, wallet>>

\* the rest of authenticateUser: comparePassword, the isActive test,
\* updateLastLogin, the DTO; and for login the response built from it
authenticateUser_comparePassword(p) ==
  /\ NoneDone
  /\ slot[p].pc = "comparePassword"
  /\ LET s == slot[p]
         user == CHOOSE u \in s.snap : TRUE
         err == authenticateUserCheck(user, s.password)
         dto == mapToResponseDto(user)
     IN IF err # EmptyStr
        THEN /\ users' = users
             /\ slot' = [slot EXCEPT ![p] = Done(s, "comparePassword", Fail(err))]
        ELSE /\ users' = updateLastLogin(users, user.id, now)
             /\ slot' = [slot EXCEPT ![p] =
                  Done(s, "updateLastLogin",
                       IF s.op = "login" THEN loginResult(dto)
                       ELSE Succeed({dto}, {}))]
  /\ UNCHANGED <<app, registry, auditLog, now, jwtSecret, wallet, nreq>>

\* PUT /api/users/:id/password and PUT /api/auth/change-password ->
\* UserService.changePassword up to the hashing: the id format test and the
\* two existence reads
changePassword(p) ==
  /\ NoneDone
  /\ Free(p)
  /\ nreq < MaxRequests /\ nreq' = nreq + 1
  /\ \E id \in IdInputs, currentPassword \in Passwords, newPassword \in Passwords :
       LET s == [IdleSlot EXCEPT !.op = "changePassword", !.id = id,
                                 !.password = currentPassword,
                                 !.newPassword = newPassword]
       IN slot' = [slot EXCEPT ![p] =
            IF ~isValidUUID(id)
            THEN Done(s, "isValidUUID", Fail(MsgInvalidId))
            ELSE IF findByEmailWithPassword(users, EmptyStr) = {}
                    /\ findById(users, id) = {}
            THEN Done(s, "findById", Fail(MsgUserNotFound))
            ELSE [s EXCEPT !.pc = "changePassword", !.step = "findById"]]
  /\ UNCHANGED <<app, registry, auditLog, users, now, jwtSecret, wallet>>

\* the rest of changePassword: bcrypt.hash(newPassword, 12) and
\* UserRepository.changePassword
changePassword_update(p) ==
  /\ NoneDone
  /\ slot[p].pc = "changePassword"
  /\ LET s == slot[p]
         r == repositoryChangePassword(users, s.id, bcryptHash(s.newPassword), now)
     IN /\ users' = r.users
        /\ slot' = [slot EXCEPT ![p] =
             Done(s, "changePassword",
                  IF r.affected > 0 THEN Succeed({}, {})
                  ELSE Fail(MsgChangePwFailed))]
  /\ UNCHANGED <<app, registry, auditLog, now, jwtSecret, wallet, nreq>>

\* DELETE /api/users/:id -> UserService.deleteUser up to findById
deleteUserBegin(s) ==
  IF ~isValidUUID(s.id)
  THEN Done(s, "isValidUUID", Fail(MsgInvalidId))
  ELSE IF findById(users, s.id) = {}
  THEN Done(s, "findById", Fail(MsgUserNotFound))
  ELSE [s EXCEPT !.pc = "softDelete", !.step = "findById"]

deleteUser(p) ==
  /\ NoneDone
  /\ Free(p)
  /\ nreq < MaxRequests /\ nreq' = nreq + 1
  /\ \E id \in IdInputs :
       slot' = [slot EXCEPT ![p] =
         deleteUserBegin([IdleSlot EXCEPT !.op = "deleteUser", !.id = id])]
  /\ UNCHANGED <<app, registry, auditLog, users, now, jwtSecret, wallet>>

\* the rest of deleteUser: UserRepository.softDelete
deleteUser_softDelete(p) ==
  /\ NoneDone
  /\ slot[p].pc = "softDelete"
  /\ LET s == slot[p]
         r == softDelete(users, s.id, now)
     IN /\ users' = r.users
        /\ slot' = [slot EXCEPT ![p] =
             Done(s, "softDelete",
                  IF r.affected > 0 THEN Succeed({}, {})
                  ELSE Fail(MsgDeleteFailed))]
  /\ UNCHANGED <<app, registry, auditLog, now, jwtSecret, wallet, nreq>>

\* GET /api/users/:id -> UserService.getUserById
getUserById(p) ==
  /\ NoneDone
  /\ Free(p)
  /\ nreq < MaxRequests /\ nreq' = nreq + 1
  /\ \E id \in IdInputs :
       LET s == [IdleSlot EXCEPT !.op = "getUserById", !.id = id]
       IN slot' = [slot EXCEPT ![p] =
            IF ~isValidUUID(id)
            THEN Done(s, "isValidUUID", Fail(MsgInvalidId))
            ELSE IF findById(users, id) = {}
            THEN Done(s, "findById", Fail(MsgUserNotFound))
            ELSE Done(s, "findById",
                      Succeed({mapToResponseDto(u) : u \in findById(users, id)},
                              {}))]
  /\ UNCHANGED <<app, registry, auditLog, users, now, jwtSecret, wallet>>

\* UserService.getUserByEmail
getUserByEmail(p) ==
  /\ NoneDone
  /\ Free(p)
  /\ nreq < MaxRequests /\ nreq' = nreq + 1
  /\ \E email \in RawEmails :
       LET s == [IdleSlot EXCEPT !.op = "getUserByEmail", !.email = email]
       IN slot' = [slot EXCEPT ![p] =
            IF findByEmail(users, email) = {}
            THEN Done(s, "findByEmail", Fail(MsgUserNotFound))
            ELSE Done(s, "findByEmail",
                      Succeed({mapToResponseDto(u) :
                                 u \in findByEmail(users, email)}, {}))]
  /\ UNCHANGED <<app, registry, auditLog, users, now, jwtSecret, wallet>>

\* UserService.getAllUsers on one of the given queries
getAllUsersOn(p, queries) ==
  /\ NoneDone
  /\ Free(p)
  /\ nreq < MaxRequests /\ nreq' = nreq + 1
  /\ \E query \in queries :
       LET s == [IdleSlot EXCEPT !.op = "getAllUsers", !.query = query]
       IN IF query.page < 1
          THEN slot' = [slot EXCEPT ![p] =
                 Done(s, "getAllUsers",
                      Fail(<<"Page", "number", "must", "be", "greater",
                             "than", "0">>))]
          ELSE IF query.limit < 1 \/ query.limit > 100
          THEN slot' = [slot EXCEPT ![p] =
                 Done(s, "getAllUsers",
                      Fail(<<"Limit", "must", "be", "between", "1", "and",
                             "100">>))]
          ELSE \E result \in findAll(users, query) :
                 slot' = [slot EXCEPT ![p] =
                   Done(s, "findAll",
                     [Succeed({mapToResponseDto(result.users[i]) :
                                 i \in 1..Len(result.users)}, {})
                        EXCEPT !.info = {[users |->
                                            [i \in 1..Len(result.users) |->
                                               mapToResponseDto(result.users[i])],
                                          total |-> result.total,
                                          totalPages |-> result.totalPages,
                                          page |-> query.page,
                                          limit |-> query.limit]}])]
  /\ UNCHANGED <<app, registry, auditLog, users, now, jwtSecret, wallet>>

\* GET /api/users -> UserService.getAllUsers, on queries that set page,
\* limit and isActive only
getAllUsers(p) ==
  getAllUsersOn(p,
    {[NoQuery EXCEPT !.page = page, !.limit = limit, !.isActive = isActive] :
       page \in 0..MaxUsers, limit \in 0..1, isActive \in {{}, {FALSE}}})

\* PUT /api/users/:id -> UserService.updateUser up to the repository call:
\* the id format test, the existence read and the minimum-age test
updateUser(p) ==
  /\ NoneDone
  /\ Free(p)
  /\ nreq < MaxRequests /\ nreq' = nreq + 1
  /\ \E id \in IdInputs, body \in UpdateBodies :
       LET dto == body.dto
           s == [IdleSlot EXCEPT !.op = "updateUser", !.id = id,
                                 !.firstName = body.firstName, !.dto = dto]
           dob == IF dto.dateOfBirth = {} THEN NoDob
                  ELSE CHOOSE d \in dto.dateOfBirth : TRUE
       IN slot' = [slot EXCEPT ![p] =
            IF ~isValidUUID(id)
            THEN Done(s, "isValidUUID", Fail(MsgInvalidId))
            ELSE IF findById(users, id) = {}
            THEN Done(s, "findById", Fail(MsgUserNotFound))
            ELSE IF dob # NoDob /\ calculateAge(dob) < 13
            THEN Done(s, "findById", Fail(MsgUnderage))
            ELSE [s EXCEPT !.pc = "update", !.step = "findById"]]
  /\ UNCHANGED <<app, registry, auditLog, users, now, jwtSecret, wallet>>

\* UserRepository.update up to its re-read: the UPDATE; with no row affected
\* it returns null and updateUser fails
updateUser_update(p) ==
  /\ NoneDone
  /\ slot[p].pc = "update"
  /\ LET s == slot[p]
         r == update(users, s.id, s.firstName, s.dto, now)
         svc == updateUserResult([err |-> EmptyStr, user |-> {}])
     IN /\ users' = r.users
        /\ slot' = [slot EXCEPT ![p] =
             IF r.affected = 0
             THEN Done(s, "update", Fail(svc.msg))
             ELSE [s EXCEPT !.pc = "updateFindById", !.step = "update"]]
  /\ UNCHANGED <<app, registry, auditLog, now, jwtSecret, wallet, nreq>>

\* the rest of UserRepository.update and of updateUser: the re-read through
\* findById and the DTO
updateUser_findById(p) ==
  /\ NoneDone
  /\ slot[p].pc = "updateFindById"
  /\ LET s == slot[p]
         svc == updateUserResult([err |-> EmptyStr,
                                  user |-> findById(users, s.id)])
     IN slot' = [slot EXCEPT ![p] =
          Done(s, "updateFindById",
               IF svc.ok THEN Succeed(svc.user, {}) ELSE Fail(svc.msg))]
  /\ UNCHANGED <<app, registry, auditLog, users, now, jwtSecret, wallet, nreq>>

\* POST /api/auth/refresh-token -> AuthService.refreshToken up to the
\* storage read of getUserById: getTokenInfo, the validity test and the id
\* format test of getUserById
refreshToken(p) ==
  /\ NoneDone
  /\ Free(p)
  /\ nreq < MaxRequests /\ nreq' = nreq + 1
  /\ \E token \in Presentable :
       LET s == [IdleSlot EXCEPT !.op = "refreshToken", !.token = token]
           tokenInfo == getTokenInfo(token, now)
       IN slot' = [slot EXCEPT ![p] =
            IF ~tokenInfo.isValid \/ tokenInfo.isExpired
            THEN Done(s, "getTokenInfo", Fail(MsgInvalidOrExpired))
            ELSE IF ~isValidUUID(tokenInfo.userId)
            THEN Done(s, "isValidUUID", Fail(MsgRefreshPrefix \o MsgInvalidId))
            ELSE [s EXCEPT !.pc = "getUserById", !.step = "getTokenInfo",
                           !.id = tokenInfo.userId, !.tokenInfo = {tokenInfo}]]
  /\ UNCHANGED <<app, registry, auditLog, users, now, jwtSecret, wallet>>

\* the rest of refreshToken: the user read, the isActive test, generateToken
refreshToken_getUserById(p) ==
  /\ NoneDone
  /\ slot[p].pc = "getUserById"
  /\ LET s == slot[p]
     IN slot' = [slot EXCEPT ![p] =
          Done(s, "getUserById",
               refreshTokenResult(CHOOSE i \in s.tokenInfo : TRUE,
                                  findById(users, s.id), jwtSecret, now))]
  /\ UNCHANGED <<app, registry, auditLog, users, now, jwtSecret, wallet, nreq>>

\* GET /api/auth/token-info -> AuthService.getTokenInfo
getTokenInfoRoute(p) ==
  /\ NoneDone
  /\ Free(p)
  /\ nreq < MaxRequests /\ nreq' = nreq + 1
  /\ \E token \in Presentable :
       slot' = [slot EXCEPT ![p] =
         Done([IdleSlot EXCEPT !.op = "getTokenInfo", !.token = token],
              "getTokenInfo",
              [NoRes EXCEPT !.ok = TRUE, !.info = {getTokenInfo(token, now)}])]
  /\ UNCHANGED <<app, registry, auditLog, users, now, jwtSecret, wallet>>

\* `error instanceof cls` for the errors jwt.verify throws: TokenExpiredError
\* and NotBeforeError extend JsonWebTokenError
instanceOf(err, cls) ==
  \/ err = cls
  \/ cls = "JsonWebTokenError" /\ err \in {"TokenExpiredError", "NotBeforeError"}

\* a rejection that is sent and followed by next() all the same
RejectAndContinue(status, code) ==
  [NoRes EXCEPT !.status = status, !.code = code, !.next = TRUE]

Reject(status, code) == [NoRes EXCEPT !.status = status, !.code = code]

\* a gate that also refuses the tokens of callers who logged out and of
\* users who are no longer active
authenticateTokenRevoking(scheme, token, secret, t) ==
  IF scheme = "Bearer" /\ token.kind = "jwt"
     /\ (token \in auditLog \/ findById(users, token.userId) = {})
  THEN Reject(401, "INVALID_TOKEN")
  ELSE IF scheme # "Bearer" \/ token.kind = "empty" THEN Reject(401, "")
  ELSE IF jwtVerify(token, secret, t) = "ok"
          /\ TruthyId(token.userId) /\ TruthyStr(token.email)
  THEN [NoRes EXCEPT !.ok = TRUE, !.next = TRUE,
          !.reqUser = {[userId |-> token.userId, email |-> token.email,
                        iat |-> token.iat, exp |-> token.exp]}]
  ELSE Reject(401, "")

\* the middleware authenticateToken on a request whose Authorization header
\* has the given scheme and token
authenticateTokenResult(scheme, token, secret, t) ==
  IF scheme = "none" THEN Reject(401, "")
  ELSE IF scheme # "Bearer" THEN Reject(401, "")
  ELSE IF token.kind = "empty" THEN Reject(401, "")
  ELSE IF secret = "" THEN Reject(500, "")
  ELSE LET v == jwtVerify(token, secret, t)
       IN IF v = "ok"
          THEN IF ~TruthyId(token.userId) \/ ~TruthyStr(token.email)
               THEN Reject(401, "")
               ELSE [NoRes EXCEPT !.ok = TRUE, !.next = TRUE,
                       !.reqUser = {[userId |-> token.userId,
                                     email |-> token.email,
                                     iat |-> token.iat, exp |-> token.exp]}]
          ELSE IF instanceOf(v, "TokenExpiredError") THEN Reject(401, "TOKEN_EXPIRED")
          ELSE IF instanceOf(v, "JsonWebTokenError") THEN Reject(401, "INVALID_TOKEN")
          ELSE IF instanceOf(v, "NotBeforeError") THEN Reject(401, "TOKEN_NOT_ACTIVE")
          ELSE Reject(401, "")

EmptyToken == [GarbageToken EXCEPT !.kind = "empty"]

\* a request to a route gated by authenticateToken
authenticateToken(p) ==
  /\ NoneDone
  /\ Free(p)
  /\ nreq < MaxRequests /\ nreq' = nreq + 1
  /\ \E scheme \in {"none", "Basic", "Bearer"},
        token \in Presentable \cup {EmptyToken} :
       /\ scheme # "Bearer" => token = GarbageToken
       /\ slot' = [slot EXCEPT ![p] =
            Done([IdleSlot EXCEPT !.op = "authenticateToken",
                                  !.header = scheme, !.token = token],
                 "authenticateToken",
                 authenticateTokenResult(scheme, token, jwtSecret, now))]
  /\ UNCHANGED <<app, registry, auditLog, users, now, jwtSecret, wallet>>

\* an optional gate that also lets a request with a bad token continue
\* anonymously
optionalAuthLenient(scheme, token, secret, t) ==
  IF scheme # "Bearer" \/ ~authenticateTokenResult(scheme, token, secret, t).next
  THEN [NoRes EXCEPT !.ok = TRUE, !.next = TRUE]
  ELSE authenticateTokenResult(scheme, token, secret, t)

\* optionalAuth: without a Bearer header the request continues anonymously,
\* otherwise authenticateToken decides
optionalAuthResult(scheme, token, secret, t) ==
  IF scheme # "Bearer" THEN [NoRes EXCEPT !.ok = TRUE, !.next = TRUE]
  ELSE authenticateTokenResult(scheme, token, secret, t)

\* a request to a route gated by optionalAuth
optionalAuth(p) ==
  /\ NoneDone
  /\ Free(p)
  /\ nreq < MaxRequests /\ nreq' = nreq + 1
  /\ \E scheme \in {"none", "Basic", "Bearer"},
        token \in Presentable \cup {EmptyToken} :
       /\ scheme # "Bearer" => token = GarbageToken
       /\ slot' = [slot EXCEPT ![p] =
            Done([IdleSlot EXCEPT !.op = "optionalAuth",
                                  !.header = scheme, !.token = token],
                 "optionalAuth",
                 optionalAuthResult(scheme, token, jwtSecret, now))]
  /\ UNCHANGED <<app, registry, auditLog, users, now, jwtSecret, wallet>>

\* an ownership test that lets every authenticated caller through
requireOwnershipAny(reqUser, resourceUserId) ==
  IF reqUser = {} THEN Reject(401, "")
  ELSE [NoRes EXCEPT !.ok = TRUE, !.next = TRUE, !.reqUser = reqUser]

\* the middleware requireOwnership('id') on a request whose identity is
\* reqUser (empty when none was attached) and whose path carries the id
requireOwnershipResult(reqUser, resourceUserId) ==
  IF reqUser = {} THEN Reject(401, "")
  ELSE LET currentUserId == (CHOOSE u \in reqUser : TRUE).userId
       IN IF resourceUserId # currentUserId THEN Reject(403, "")
          ELSE [NoRes EXCEPT !.ok = TRUE, !.next = TRUE, !.reqUser = reqUser]

\* a request to a route gated by authenticateToken, requireOwnership()
requireOwnership(p) ==
  /\ NoneDone
  /\ Free(p)
  /\ nreq < MaxRequests /\ nreq' = nreq + 1
  /\ \E token \in Presentable, id \in IdInputs :
       LET auth == authenticateTokenResult("Bearer", token, jwtSecret, now)
       IN slot' = [slot EXCEPT ![p] =
            Done([IdleSlot EXCEPT !.op = "requireOwnership", !.id = id,
                                  !.header = "Bearer", !.token = token],
                 "requireOwnership",
                 IF auth.next THEN requireOwnershipResult(auth.reqUser, id)
                 ELSE auth)]
  /\ UNCHANGED <<app, registry, auditLog, users, now, jwtSecret, wallet>>

\* POST /api/auth/logout: authenticateToken, then AuthController.logoutUser
\* -> AuthService.logout, which only validates the token through
\* getTokenInfo and writes the audit line
logout(p) ==
  /\ NoneDone
  /\ Free(p)
  /\ nreq < MaxRequests /\ nreq' = nreq + 1
  /\ \E token \in Presentable :
       LET auth == authenticateTokenResult("Bearer", token, jwtSecret, now)
           s == [IdleSlot EXCEPT !.op = "logout", !.header = "Bearer",
                                 !.token = token]
       IN IF ~auth.next
          THEN /\ slot' = [slot EXCEPT ![p] = Done(s, "authenticateToken", auth)]
               /\ auditLog' = auditLog
          ELSE IF ~getTokenInfo(token, now).isValid
          THEN /\ slot' = [slot EXCEPT ![p] =
                    Done(s, "getTokenInfo", Fail(<<"Invalid", "token">>))]
               /\ auditLog' = auditLog
          ELSE /\ slot' = [slot EXCEPT ![p] =
                    Done(s, "logout", Succeed({}, {}))]
               /\ auditLog' = auditLog \cup {token}
  /\ UNCHANGED <<app, registry, users, now, jwtSecret, wallet>>

\* the response leaves the server; a client keeps the token it was given
Respond(p) ==
  /\ slot[p].pc = "done"
  /\ slot' = [slot EXCEPT ![p] = IdleSlot]
  /\ wallet' = IF Cardinality(wallet) < MaxWallet
               THEN wallet \cup slot[p].res.token ELSE wallet
  /\ UNCHANGED <<app, registry, auditLog, users, now, jwtSecret, nreq>>

\* a second passes
Tick ==
  /\ NoneDone
  /\ now < MaxNow
  /\ now' = now + 1
  /\ UNCHANGED <<app, registry, auditLog, users, jwtSecret, wallet, slot, nreq>>

Next ==
  \/ \E p \in Procs : createUser(p)
  \/ \E p \in Procs : register(p)
  \/ \E p \in Procs : createUser_create(p)
  \/ \E p \in Procs : authenticateUser(p)
  \/ \E p \in Procs : login(p)
  \/ \E p \in Procs : authenticateUser_comparePassword(p)
  \/ \E p \in Procs : changePassword(p)
  \/ \E p \in Procs : changePassword_update(p)
  \/ \E p \in Procs : deleteUser(p)
  \/ \E p \in Procs : deleteUser_softDelete(p)
  \/ \E p \in Procs : getUserById(p)
  \/ \E p \in Procs : getUserByEmail(p)
  \/ \E p \in Procs : getAllUsers(p)
  \/ \E p \in Procs : updateUser(p)
  \/ \E p \in Procs : updateUser_update(p)
  \/ \E p \in Procs : updateUser_findById(p)
  \/ \E p \in Procs : refreshToken(p)
  \/ \E p \in Procs : refreshToken_getUserById(p)
  \/ \E p \in Procs : getTokenInfoRoute(p)
  \/ \E p \in Procs : authenticateToken(p)
  \/ \E p \in Procs : Respond(p)
  \/ Tick

Spec == Init /\ [][Next]_vars

\* ------------------------------------------------ the store out of reach
\* a storage call of an in-flight handler is answered by the driver's
\* connection error instead of a result; the table is not touched

\* UserRepository.create fails: its catch rethrows, createUser's catch maps
createUser_createOutage(p) ==
  /\ NoneDone
  /\ slot[p].pc = "create"
  /\ LET s == [slot[p] EXCEPT !.storeErr = MsgConnRefused]
         r == [err |-> repositoryRethrow(MsgConnRefused), users |-> users,
               user |-> {}]
         svc == createUserResult(r)
         res == IF s.op = "register" THEN registerResult(svc, jwtSecret, now)
                ELSE Fail(svc.msg)
     IN slot' = [slot EXCEPT ![p] = Done(s, "create", res)]
  /\ UNCHANGED <<app, registry, auditLog, users, now, jwtSecret, wallet, nreq>>

\* the UPDATE of UserRepository.update fails: its catch rethrows,
\* updateUser's catch maps
updateUser_updateOutage(p) ==
  /\ NoneDone
  /\ slot[p].pc = "update"
  /\ LET s == [slot[p] EXCEPT !.storeErr = MsgConnRefused]
         svc == updateUserResult([err |-> repositoryRethrow(MsgConnRefused),
                                  user |-> {}])
     IN slot' = [slot EXCEPT ![p] = Done(s, "update", Fail(svc.msg))]
  /\ UNCHANGED <<app, registry, auditLog, users, now, jwtSecret, wallet, nreq>>

\* UserRepository.softDelete fails: deleteUser has no catch around it
deleteUser_softDeleteOutage(p) ==
  /\ NoneDone
  /\ slot[p].pc = "softDelete"
  /\ LET s == [slot[p] EXCEPT !.storeErr = MsgConnRefused]
     IN slot' = [slot EXCEPT ![p] = Done(s, "softDelete", Fail(MsgConnRefused))]
  /\ UNCHANGED <<app, registry, auditLog, users, now, jwtSecret, wallet, nreq>>

NextOutage ==
  \/ Next
  \/ \E p \in Procs : createUser_createOutage(p)
  \/ \E p \in Procs : updateUser_updateOutage(p)
  \/ \E p \in Procs : deleteUser_softDeleteOutage(p)

SpecOutage == Init /\ [][NextOutage]_vars

\* ------------------------------------------------- the gates of the routes
\* the middlewares in front of the private routes, exercised with the tokens
\* of registered users, of users deleted since, and of callers who logged out
NextGate ==
  \/ \E p \in Procs : register(p)
  \/ \E p \in Procs : createUser_create(p)
  \/ \E p \in Procs : deleteUser(p)
  \/ \E p \in Procs : deleteUser_softDelete(p)
  \/ \E p \in Procs : authenticateToken(p)
  \/ \E p \in Procs : optionalAuth(p)
  \/ \E p \in Procs : requireOwnership(p)
  \/ \E p \in Procs : logout(p)
  \/ \E p \in Procs : Respond(p)
  \/ Tick

SpecGate == Init /\ [][NextGate]_vars

\* ------------------------------------------------------- the users router
\* the router that UsersModule mounts at /api/users: each route with the
\* access its comment documents, the middlewares in front of its handler
\* and the controller method that handles it
userRoutes ==
  { [method |-> "POST", path |-> "/login", access |-> "Public",
     middlewares |-> << >>, handler |-> "loginUser"],
    [method |-> "POST", path |-> "/", access |-> "Public",
     middlewares |-> << >>, handler |-> "createUser"],
    [method |-> "GET", path |-> "/", access |-> "Private",
     middlewares |-> << >>, handler |-> "getAllUsers"],
    [method |-> "GET", path |-> "/stats", access |-> "Private",
     middlewares |-> << >>, handler |-> "getUserStats"],
    [method |-> "GET", path |-> "/:id", access |-> "Private",
     middlewares |-> << >>, handler |-> "getUserById"],
    [method |-> "GET", path |-> "/profile/:id", access |-> "Private",
     middlewares |-> << >>, handler |-> "getUserProfile"],
    [method |-> "PUT", path |-> "/:id", access |-> "Private",
     middlewares |-> << >>, handler |-> "updateUser"],
    [method |-> "PUT", path |-> "/:id/password", access |-> "Private",
     middlewares |-> << >>, handler |-> "changePassword"],
    [method |-> "PUT", path |-> "/:id/verify-email", access |-> "Private",
     middlewares |-> << >>, handler |-> "verifyEmail"],
    [method |-> "DELETE", path |-> "/:id", access |-> "Private",
     middlewares |-> << >>, handler |-> "deleteUser"] }

\* the middlewares of a route in their order, on a request with the given
\* Authorization header and :id parameter: each one either passes the
\* request on, with the identity attached so far, or answers it
RECURSIVE runMiddlewares(_, _, _, _, _)
runMiddlewares(middlewares, reqUser, scheme, token, id) ==
  IF middlewares = << >>
  THEN [NoRes EXCEPT !.next = TRUE, !.reqUser = reqUser]
  ELSE LET r == IF Head(middlewares) = "authenticateToken"
                THEN authenticateTokenResult(scheme, token, jwtSecret, now)
                ELSE requireOwnershipResult(reqUser, id)
       IN IF r.next
          THEN runMiddlewares(Tail(middlewares), r.reqUser, scheme, token, id)
          ELSE r

\* DELETE /api/users/:id through the router: the middlewares of the route,
\* then UserService.deleteUser up to the repository call
UserRouter_delete(p) ==
  /\ NoneDone
  /\ Free(p)
  /\ nreq < MaxRequests /\ nreq' = nreq + 1
  /\ \E route \in userRoutes, scheme \in {"none", "Bearer"},
        token \in Presentable, id \in IdInputs :
       /\ route.method = "DELETE" /\ route.path = "/:id"
       /\ LET gate == runMiddlewares(route.middlewares, {}, scheme, token, id)
              s == [IdleSlot EXCEPT !.op = route.handler, !.id = id,
                                    !.header = scheme, !.token = token]
          IN slot' = [slot EXCEPT ![p] =
               IF gate.next THEN deleteUserBegin(s)
               ELSE Done(s, "middleware", gate)]
  /\ UNCHANGED <<app, registry, auditLog, users, now, jwtSecret, wallet>>

NextRoutes ==
  \/ \E p \in Procs : register(p)
  \/ \E p \in Procs : createUser_create(p)
  \/ \E p \in Procs : UserRouter_delete(p)
  \/ \E p \in Procs : deleteUser_softDelete(p)
  \/ \E p \in Procs : Respond(p)
  \/ Tick

SpecRoutes == Init /\ [][NextRoutes]_vars

\* ------------------------------------------- the gate and the environment
\* the process starts with JWT_SECRET either configured or absent (the
\* variable is optional in the environment schema)
InitEnv ==
  /\ users = << >>
  /\ now = 0
  /\ jwtSecret \in {"", "k"}
  /\ wallet = {}
  /\ nreq = 0
  /\ auditLog = {}
  /\ registry = [modules |-> <<UsersModule, AuthModule>>, isInitialized |-> TRUE]
  /\ app = <<UsersModule, AuthModule>>
  /\ slot = [p \in Procs |-> IdleSlot]

NextEnv ==
  \/ \E p \in Procs : register(p)
  \/ \E p \in Procs : createUser_create(p)
  \/ \E p \in Procs : authenticateToken(p)
  \/ \E p \in Procs : Respond(p)
  \/ Tick

SpecEnv == InitEnv /\ [][NextEnv]_vars

\* ---------------------------------------------------------------- listing
\* people who have signed up, as POST /api/users received them
QueryPeople ==
  { [email |-> <<"a">>, firstName |-> <<"a">>,
     dto |-> [CreateDto(<<"l">>, NoDob) EXCEPT !.supplied = @ \cup {"gender"},
                                              !.gender = {"other"}]],
    [email |-> <<"b">>, firstName |-> <<"A", "b">>,
     dto |-> CreateDto(<<"k">>, NoDob)],
    [email |-> <<"_">>, firstName |-> <<"a">>,
     dto |-> [CreateDto(<<"L">>, NoDob) EXCEPT !.supplied = @ \cup {"gender"},
                                              !.gender = {"other"}]],
    [email |-> <<"n">>, firstName |-> <<"B">>,
     dto |-> CreateDto(<<"l">>, NoDob)] }

\* the tables of n rows that creations and deletions leave: the first two
\* rows are inserted at instant 0, the later ones at instant 1, and each
\* row is either kept or soft-deleted
RECURSIVE QueryStoresOf(_)
QueryStoresOf(n) ==
  IF n = 0 THEN {<< >>}
  ELSE LET t == IF n <= 2 THEN 0 ELSE 1
           grown == {InsertRow(s, who.email, <<"p">>, who.firstName,
                               who.dto, t).users :
                       s \in QueryStoresOf(n - 1), who \in QueryPeople}
           full == {s \in grown : Len(s) = n}
       IN full \cup {softDelete(s, n, t).users : s \in full}

InitQuery ==
  /\ users \in UNION {QueryStoresOf(n) : n \in 0..MaxRows}
  /\ now = 1
  /\ jwtSecret = "k"
  /\ wallet = {}
  /\ nreq = 0
  /\ auditLog = {}
  /\ registry = [modules |-> <<UsersModule, AuthModule>>, isInitialized |-> TRUE]
  /\ app = <<UsersModule, AuthModule>>
  /\ slot = [p \in Procs |-> IdleSlot]

\* GET /api/users -> UserController.getAllUsers: the query parsed by
\* UserQuerySchema goes to UserService.getAllUsers
UserController_getAllUsers(p) == getAllUsersOn(p, ControllerQueries)

NextQuery ==
  \/ \E p \in Procs : UserController_getAllUsers(p)
  \/ \E p \in Procs : Respond(p)

SpecQuery == InitQuery /\ [][NextQuery]_vars

\* -------------------------------------------- verification and statistics
\* PUT /api/users/:id/verify-email -> UserService.verifyEmail up to its
\* storage call
verifyEmail(p) ==
  /\ NoneDone
  /\ Free(p)
  /\ nreq < MaxRequests /\ nreq' = nreq + 1
  /\ \E id \in IdInputs :
       LET s == [IdleSlot EXCEPT !.op = "verifyEmail", !.id = id]
       IN slot' = [slot EXCEPT ![p] =
            IF ~isValidUUID(id)
            THEN Done(s, "isValidUUID", Fail(MsgInvalidId))
            ELSE [s EXCEPT !.pc = "verifyEmail", !.step = "isValidUUID"]]
  /\ UNCHANGED <<app, registry, auditLog, users, now, jwtSecret, wallet>>

\* the rest of verifyEmail: UserRepository.verifyEmail
verifyEmail_verifyEmail(p) ==
  /\ NoneDone
  /\ slot[p].pc = "verifyEmail"
  /\ LET s == slot[p]
         r == repositoryVerifyEmail(users, s.id, now)
     IN /\ users' = r.users
        /\ slot' = [slot EXCEPT ![p] =
             Done(s, "verifyEmail",
                  IF r.affected > 0 THEN Succeed({}, {})
                  ELSE Fail(<<"Failed", "to", "verify", "email", "or", "user",
                              "not", "found">>))]
  /\ UNCHANGED <<app, registry, auditLog, now, jwtSecret, wallet, nreq>>

\* GET /api/users/stats -> UserService.getUserStats up to the answer of
\* countActive (snap keeps the rows that the count covered)
getUserStats(p) ==
  /\ NoneDone
  /\ Free(p)
  /\ nreq < MaxRequests /\ nreq' = nreq + 1
  /\ slot' = [slot EXCEPT ![p] =
       [IdleSlot EXCEPT !.op = "getUserStats", !.pc = "findRecentUsers",
                        !.step = "countActive",
                        !.totalActive = countActive(users),
                        !.snap = {withoutPassword(users[i]) :
                                    i \in {j \in 1..Len(users) : users[j].isActive}}]]
  /\ UNCHANGED <<app, registry, auditLog, users, now, jwtSecret, wallet>>

\* the rest of getUserStats: findRecentUsers(24) and the result
getUserStats_findRecentUsers(p) ==
  /\ NoneDone
  /\ slot[p].pc = "findRecentUsers"
  /\ LET s == slot[p]
         totalActive == s.totalActive
         recentUsers == findRecentUsers(users, 24, now)
         verifiedUsers == totalActive
     IN slot' = [slot EXCEPT ![p] =
          Done(s, "findRecentUsers",
               [Succeed({}, {}) EXCEPT
                  !.info = {[totalActive |-> totalActive,
                             recentUsers |-> Len(recentUsers),
                             verifiedUsers |-> verifiedUsers]}])]
  /\ UNCHANGED <<app, registry, auditLog, users, now, jwtSecret, wallet, nreq>>

\* the user routes that write the table or read all of it
NextAccount ==
  \/ \E p \in Procs : createUser(p)
  \/ \E p \in Procs : createUser_create(p)
  \/ \E p \in Procs : authenticateUser(p)
  \/ \E p \in Procs : authenticateUser_comparePassword(p)
  \/ \E p \in Procs : changePassword(p)
  \/ \E p \in Procs : changePassword_update(p)
  \/ \E p \in Procs : deleteUser(p)
  \/ \E p \in Procs : deleteUser_softDelete(p)
  \/ \E p \in Procs : updateUser(p)
  \/ \E p \in Procs : updateUser_update(p)
  \/ \E p \in Procs : updateUser_findById(p)
  \/ \E p \in Procs : verifyEmail(p)
  \/ \E p \in Procs : verifyEmail_verifyEmail(p)
  \/ \E p \in Procs : getUserStats(p)
  \/ \E p \in Procs : getUserStats_findRecentUsers(p)
  \/ \E p \in Procs : Respond(p)
  \/ Tick

SpecAccount == Init /\ [][NextAccount]_vars

\* ------------------------------------------------- the password strength meter
\* the character classes of the five regular expressions
DigitChars == {"0", "1", "2", "3", "4", "5", "6", "7", "8", "9"}

SymbolChars ==
  {"!", "@", "#", "$", "%", "^", "&", "*", "(", ")", ",", ".", "?", "\"",
   ":", "{", "}", "|", "<", ">"}

regexTest(class, s) == \E i \in 1..Len(s) : s[i] \in class

commonPatterns ==
  { <<"1", "2", "3", "4", "5", "6">>,
    <<"p", "a", "s", "s", "w", "o", "r", "d">>,
    <<"q", "w", "e", "r", "t", "y">>,
    <<"a", "b", "c", "1", "2", "3">>,
    <<"a", "d", "m", "i", "n">> }

SugLength == "Use at least 8 characters"
SugUpper == "Include uppercase letters"
SugLower == "Include lowercase letters"
SugNumbers == "Include numbers"
SugGreat == "Great! You're using special characters"
SugSpecial == "Consider adding special characters"
SugCommon == "Avoid common patterns like '123456' or 'password'"

Range(f) == {f[i] : i \in DOMAIN f}

\* the meter before Math.max / Math.min are applied to the score
validatePasswordStrengthUnclamped(password) ==
  LET hasLength == Len(password) >= 8
      hasUpper == regexTest(Range(UpperLetters), password)
      hasLower == regexTest(Range(LowerLetters), password)
      hasDigit == regexTest(DigitChars, password)
      hasSymbol == regexTest(SymbolChars, password)
      hasCommonPattern ==
        \E pattern \in commonPatterns : includes(toLowerCase(password), pattern)
      score == (IF hasLength THEN 1 ELSE 0) + (IF hasUpper THEN 1 ELSE 0)
               + (IF hasLower THEN 1 ELSE 0) + (IF hasDigit THEN 1 ELSE 0)
               + (IF hasSymbol THEN 1 ELSE 0)
               - (IF hasCommonPattern THEN 2 ELSE 0)
      suggestions ==
        (IF hasLength THEN << >> ELSE <<SugLength>>)
        \o (IF hasUpper THEN << >> ELSE <<SugUpper>>)
        \o (IF hasLower THEN << >> ELSE <<SugLower>>)
        \o (IF hasDigit THEN << >> ELSE <<SugNumbers>>)
        \o (IF hasSymbol THEN <<SugGreat>> ELSE <<SugSpecial>>)
        \o (IF hasCommonPattern THEN <<SugCommon>> ELSE << >>)
  IN [isValid |-> score >= 3 /\ ~hasCommonPattern,
      score |-> score,
      suggestions |-> SubSeq(suggestions, 1,
                             IF Len(suggestions) < 3 THEN Len(suggestions) ELSE 3)]

\* AuthService.validatePasswordStrength
validatePasswordStrength(password) ==
  LET hasLength == Len(password) >= 8
      hasUpper == regexTest(Range(UpperLetters), password)
      hasLower == regexTest(Range(LowerLetters), password)
      hasDigit == regexTest(DigitChars, password)
      hasSymbol == regexTest(SymbolChars, password)
      hasCommonPattern ==
        \E pattern \in commonPatterns : includes(toLowerCase(password), pattern)
      score == (IF hasLength THEN 1 ELSE 0) + (IF hasUpper THEN 1 ELSE 0)
               + (IF hasLower THEN 1 ELSE 0) + (IF hasDigit THEN 1 ELSE 0)
               + (IF hasSymbol THEN 1 ELSE 0)
               - (IF hasCommonPattern THEN 2 ELSE 0)
      capped == IF score > 5 THEN 5 ELSE score
      suggestions ==
        (IF hasLength THEN << >> ELSE <<SugLength>>)
        \o (IF hasUpper THEN << >> ELSE <<SugUpper>>)
        \o (IF hasLower THEN << >> ELSE <<SugLower>>)
        \o (IF hasDigit THEN << >> ELSE <<SugNumbers>>)
        \o (IF hasSymbol THEN <<SugGreat>> ELSE <<SugSpecial>>)
        \o (IF hasCommonPattern THEN <<SugCommon>> ELSE << >>)
  IN [isValid |-> score >= 3 /\ ~hasCommonPattern,
      score |-> IF capped < 0 THEN 0 ELSE capped,
      suggestions |-> SubSeq(suggestions, 1,
                             IF Len(suggestions) < 3 THEN Len(suggestions) ELSE 3)]

\* the fragments candidate passwords are put together from
Pieces ==
  { <<"a", "d", "m", "i", "n">>, <<"A", "D", "M", "I", "N">>,
    <<"a", "b", "c">>, <<"1", "2", "3">>, <<"Z", "z", "9", "z">>,
    <<"X">>, <<"7">>, <<"!">> }

RECURSIVE PiecesUpTo(_)
PiecesUpTo(n) ==
  IF n = 0 THEN {EmptyStr}
  ELSE PiecesUpTo(n - 1)
       \cup {s \o piece : s \in PiecesUpTo(n - 1), piece \in Pieces}


\* a POST /api/auth/validate-password request has arrived with its body
InitStrength ==
  /\ users = << >>
  /\ now = 0
  /\ jwtSecret = "k"
  /\ wallet = {}
  /\ nreq = 1
  /\ auditLog = {}
  /\ registry = [modules |-> <<UsersModule, AuthModule>>, isInitialized |-> TRUE]
  /\ app = <<UsersModule, AuthModule>>
  /\ \E password \in PiecesUpTo(MaxPieces) :
       slot = [p \in Procs |->
                 IF p = 1
                 THEN [IdleSlot EXCEPT !.op = "validatePassword",
                                        !.pc = "validatePassword",
                                        !.password = password]
                 ELSE IdleSlot]

\* AuthController.validatePassword
validatePassword(p) ==
  /\ slot[p].pc = "validatePassword"
  /\ slot' = [slot EXCEPT ![p] =
       IF slot[p].password = EmptyStr
       THEN Done(slot[p], "validatePassword",
                 [Fail(<<"Password", "is", "required">>) EXCEPT !.status = 400])
       ELSE Done(slot[p], "validatePassword",
                 [Succeed({}, {}) EXCEPT
                    !.info = {validatePasswordStrength(slot[p].password)}])]
  /\ UNCHANGED <<app, registry, auditLog, users, now, jwtSecret, wallet, nreq>>

NextStrength ==
  \/ \E p \in Procs : validatePassword(p)
  \/ \E p \in Procs : Respond(p)

SpecStrength == InitStrength /\ [][NextStrength]_vars

\* --------------------------------------------------- the registry at start-up
\* the process before any module file has been imported
InitRegistry ==
  /\ users = << >>
  /\ now = 0
  /\ jwtSecret = "k"
  /\ wallet = {}
  /\ nreq = 0
  /\ auditLog = {}
  /\ registry = [modules |-> << >>, isInitialized |-> FALSE]
  /\ app = << >>
  /\ slot = [p \in Procs |-> IdleSlot]

\* SimpleRegistry.register
SimpleRegistry_register(moduleInfo) ==
  /\ registry' = registerModule(registry, moduleInfo)
  /\ UNCHANGED <<app, auditLog, users, now, jwtSecret, wallet, slot, nreq>>

\* SimpleRegistry.applyAll
SimpleRegistry_applyAll ==
  /\ IF registry.isInitialized
     THEN UNCHANGED <<registry, app>>
     ELSE IF Len(registry.modules) = 0
     THEN UNCHANGED <<registry, app>>
     ELSE /\ app' = mountAll(app, registry.modules)
          /\ registry' = [registry EXCEPT !.isInitialized = TRUE]
  /\ UNCHANGED <<auditLog, users, now, jwtSecret, wallet, slot, nreq>>

NextRegistry ==
  \/ \E moduleInfo \in ModuleInfos : SimpleRegistry_register(moduleInfo)
  \/ SimpleRegistry_applyAll

SpecRegistry == InitRegistry /\ [][NextRegistry]_vars

\* ================================================================ claims

\* C1: refreshToken issues a new token only when the presented token's
\* signature validates against the signing secret; a forged token never
\* yields a new token.
C1_RefreshRequiresValidSignature ==
  \A p \in Procs :
    (slot[p].pc = "done" /\ slot[p].op = "refreshToken" /\ slot[p].res.ok)
      => jwtVerify(slot[p].token, jwtSecret, now) # "JsonWebTokenError"

\* C2: login with the email and correct password of an active user succeeds
\* and returns a token that verifies and whose subject id and email are the
\* authenticated user's.
C2_LoginReturnsToken ==
  \A p \in Procs :
    (slot[p].pc = "done" /\ slot[p].op = "login"
       /\ slot[p].step = "updateLastLogin")
      => /\ slot[p].res.ok
         /\ \E tok \in slot[p].res.token, u \in slot[p].snap :
              /\ jwtVerify(tok, jwtSecret, now) = "ok"
              /\ tok.userId = u.id
              /\ tok.email = u.email

\* C3: of createUser/register calls whose emails normalise to the same value
\* at most one succeeds, in every interleaving; one that loses (at the
\* pre-check or at the insert) fails with the duplicate-email conflict
\* ('A user with this email already exists', answered 409) and never with a
\* raw storage error or a generic failure; no two active rows share a
\* normalised email.
C3_DuplicateEmailConflict ==
  /\ [](\A i, j \in 1..Len(users) :
          (i # j /\ users[i].isActive /\ users[j].isActive)
            => normalizeEmail(users[i].email) # normalizeEmail(users[j].email))
  /\ [](\A p \in Procs :
          (slot[p].pc = "done" /\ slot[p].op \in {"createUser", "register"})
            => /\ (~slot[p].res.ok /\ slot[p].res.msg # MsgUnderage)
                    => /\ slot[p].res.msg = MsgEmailExists
                       /\ errorHandler(slot[p].res.msg) = 409
               /\ slot[p].res.ok
                    => /\ users[Len(users)].email = normalizeEmail(slot[p].email)
                       /\ \A u \in slot[p].res.user : u.id = Len(users))
  /\ [][\A p \in Procs :
          (slot[p].pc = "create" /\ slot'[p].pc = "done")
            => IF \E i \in 1..Len(users) :
                    users[i].email = normalizeEmail(slot[p].email)
               THEN ~slot'[p].res.ok /\ users' = users
               ELSE slot'[p].res.ok /\ Len(users') = Len(users) + 1]_vars

\* C3 witness: a creation that passed the pre-check and lost the race at the
\* insert to a row that is active now, answered with the conflict
C3_Witness ==
  \E p \in Procs :
    /\ slot[p].pc = "done" /\ slot[p].op = "createUser"
    /\ slot[p].step = "create"
    /\ slot[p].res = Fail(MsgEmailExists)
    /\ \E i \in 1..Len(users) :
         /\ users[i].isActive
         /\ users[i].email = normalizeEmail(slot[p].email)
         /\ users[i].email # slot[p].email

\* C4: changePassword replaces the stored credential only if currentPassword
\* verifies against the stored hash; with a wrong currentPassword the stored
\* credential is unchanged.
C4_ChangePasswordVerifiesCurrent ==
  [][\A p \in Procs :
       (slot[p].pc = "changePassword" /\ slot'[p].pc = "done")
         => \A i \in 1..Len(users) :
              users'[i].password # users[i].password
                => bcryptCompare(slot[p].password, users[i].password)]_vars

\* C5: a token issued by generateToken at time t with time-to-live d is
\* accepted by authenticateToken (identity attached, next called) at every
\* time before t + d and rejected with 401 TOKEN_EXPIRED at every time at or
\* after t + d.
C5_TokenValidUntilExpiry ==
  \A p \in Procs :
    (slot[p].pc = "done" /\ slot[p].op = "authenticateToken"
       /\ slot[p].header = "Bearer"
       /\ slot[p].token.kind = "jwt" /\ slot[p].token.sig = jwtSecret
       /\ slot[p].token.nbf = NoExp)
      => IF now < slot[p].token.iat + DefaultExpiresIn
         THEN /\ slot[p].res.next
              /\ slot[p].res.status = 0
              /\ slot[p].res.reqUser =
                   {[userId |-> slot[p].token.userId,
                     email |-> slot[p].token.email,
                     iat |-> slot[p].token.iat, exp |-> slot[p].token.exp]}
         ELSE /\ ~slot[p].res.next
              /\ slot[p].res.status = 401
              /\ slot[p].res.code = "TOKEN_EXPIRED"
              /\ slot[p].res.reqUser = {}

\* C5 witness: an issued token presented exactly at its expiry instant and
\* rejected as expired
C5_Witness ==
  \E p \in Procs :
    /\ slot[p].pc = "done" /\ slot[p].op = "authenticateToken"
    /\ slot[p].header = "Bearer"
    /\ slot[p].token \in wallet
    /\ now = slot[p].token.iat + DefaultExpiresIn
    /\ slot[p].res.code = "TOKEN_EXPIRED"

\* C6: refreshToken and getTokenInfo treat a token as expired at every time
\* at or after its expires-at, the expiry instant included: whenever
\* authenticateToken would reject the token as expired, getTokenInfo reports
\* it expired and refreshToken refuses it.
C6_ExpiryAgreesWithVerify ==
  [][\A p \in Procs :
       (slot[p].pc = "idle"
          /\ slot'[p].op \in {"refreshToken", "getTokenInfo"}
          /\ jwtVerify(slot'[p].token, jwtSecret, now) = "TokenExpiredError")
         => /\ slot'[p].op = "refreshToken"
                 => slot'[p].res = Fail(MsgInvalidOrExpired)
            /\ slot'[p].op = "getTokenInfo"
                 => \A i \in slot'[p].res.info : i.isExpired /\ ~i.isValid]_vars

\* C7: refreshToken with a token that passed token validation but whose
\* subject user is soft-deleted when the user is read fails with a user
\* failure, not the token error, and issues no token; a new token is issued
\* only for a user who is active at the read.
C7_RefreshChecksActiveUser ==
  \A p \in Procs :
    (slot[p].pc = "done" /\ slot[p].op = "refreshToken"
       /\ slot[p].step = "getUserById")
      => LET active == \E i \in 1..Len(users) :
                          users[i].id = slot[p].id /\ users[i].isActive
         IN /\ slot[p].res.ok => active
            /\ ~active
                 => /\ ~slot[p].res.ok
                    /\ slot[p].res.token = {}
                    /\ ~includes(slot[p].res.msg, MsgInvalidOrExpired)
                    /\ includes(slot[p].res.msg, MsgUserNotFound)

\* C7 witness: a refresh with an issued token of a user who was soft-deleted
\* before the read, refused
C7_Witness ==
  \E p \in Procs :
    /\ slot[p].pc = "done" /\ slot[p].op = "refreshToken"
    /\ slot[p].step = "getUserById"
    /\ slot[p].token \in wallet
    /\ ~slot[p].res.ok
    /\ \E i \in 1..Len(users) :
         users[i].id = slot[p].id /\ ~users[i].isActive

\* C8: authenticateUser fails with one and the same failure, 'Invalid email
\* or password', for an unknown email and for a wrong password, and neither
\* outcome changes a user record.
C8_InvalidCredentialsIndistinguishable ==
  /\ [](\A p \in Procs :
          (slot[p].pc = "done" /\ slot[p].op \in {"authenticateUser", "login"}
             /\ \/ slot[p].step = "findByEmailWithPassword"
                \/ \E u \in slot[p].snap :
                     ~bcryptCompare(slot[p].password, u.password))
            => slot[p].res = Fail(MsgInvalidCredentials))
  /\ [][\A p \in Procs :
          (slot'[p].pc = "done"
             /\ slot'[p].op \in {"authenticateUser", "login"}
             /\ slot'[p].res.msg = MsgInvalidCredentials)
            => users' = users]_vars

\* C8 witness: an existing active user's email with a wrong password,
\* answered with the generic failure
C8_Witness ==
  \E p \in Procs :
    /\ slot[p].pc = "done" /\ slot[p].op = "authenticateUser"
    /\ slot[p].step = "comparePassword"
    /\ slot[p].res = Fail(MsgInvalidCredentials)
    /\ \E u \in slot[p].snap : ~bcryptCompare(slot[p].password, u.password)

\* C9: authenticateUser with the email and the correct password of a
\* soft-deleted user fails with 'Account is deactivated'.
C9_DeactivatedAccountReported ==
  \A p \in Procs :
    (slot[p].pc = "done" /\ slot[p].op = "authenticateUser"
       /\ slot[p].step = "findByEmailWithPassword"
       /\ \E i \in 1..Len(users) :
            /\ users[i].email = normalizeEmail(slot[p].email)
            /\ ~users[i].isActive
            /\ bcryptCompare(slot[p].password, users[i].password))
      => slot[p].res.msg = MsgDeactivated

\* C10: after the user with email e is soft-deleted, createUser with an
\* email that normalises to e succeeds: an insert is refused as a duplicate
\* only when an active row holds the email.
C10_InactiveEmailReusable ==
  \A p \in Procs :
    (slot[p].pc = "done" /\ slot[p].op \in {"createUser", "register"}
       /\ slot[p].step = "create" /\ ~slot[p].res.ok)
      => \E i \in 1..Len(users) :
           /\ users[i].isActive
           /\ users[i].email = normalizeEmail(slot[p].email)

\* C11: after softDelete(id) succeeds on an active user with email e,
\* findById(id) and findByEmail(e) report not-found, countActive is exactly
\* one less than immediately before, and the record is still in the store
\* with isActive = false (updatedAt refreshed, every other member and every
\* other row unchanged).
C11_SoftDeleteHidesAndKeeps ==
  [][\A p \in Procs :
       (slot[p].pc = "softDelete" /\ slot'[p].pc = "done" /\ slot'[p].res.ok)
         => /\ findById(users', slot[p].id) = {}
            /\ \A i \in 1..Len(users) :
                 users[i].id = slot[p].id
                   => /\ users[i].isActive
                      /\ \A e \in RawEmails :
                           normalizeEmail(e) = users[i].email
                             => findByEmail(users', e) = {}
            /\ countActive(users') = countActive(users) - 1
            /\ Len(users') = Len(users)
            /\ \A i \in 1..Len(users) :
                 users'[i] = IF users[i].id = slot[p].id
                             THEN [users[i] EXCEPT !.isActive = FALSE,
                                                   !.updatedAt = now]
                             ELSE users[i]]_vars

\* C11 witness: a delete that succeeded while another user stays active; the
\* deleted row is still stored, flagged inactive
C11_Witness ==
  \E p \in Procs :
    /\ slot[p].pc = "done" /\ slot[p].op = "deleteUser"
    /\ slot[p].step = "softDelete" /\ slot[p].res.ok
    /\ \E i, j \in 1..Len(users) :
         /\ users[i].id = slot[p].id /\ ~users[i].isActive
         /\ users[j].isActive

\* C12: when verification fails in authenticateToken the request is
\* rejected with 401 and the code of the specific failure kind:
\* TOKEN_EXPIRED for an expired token, INVALID_TOKEN for a malformed or
\* wrongly signed token, TOKEN_NOT_ACTIVE for a token whose not-before claim
\* is not yet met.
C12_VerificationFailureCodes ==
  \A p \in Procs :
    (slot[p].pc = "done" /\ slot[p].op = "authenticateToken"
       /\ slot[p].header = "Bearer" /\ slot[p].token.kind # "empty"
       /\ jwtVerify(slot[p].token, jwtSecret, now) # "ok")
      => /\ slot[p].res.status = 401
         /\ ~slot[p].res.next
         /\ slot[p].res.code =
              CASE jwtVerify(slot[p].token, jwtSecret, now) = "TokenExpiredError"
                     -> "TOKEN_EXPIRED"
                [] jwtVerify(slot[p].token, jwtSecret, now) = "NotBeforeError"
                     -> "TOKEN_NOT_ACTIVE"
                [] OTHER -> "INVALID_TOKEN"

\* C13: for each failure kind the services raise, errorHandler answers with
\* the status the table assigns to the kind: validation 400, not found 404,
\* duplicate/conflict 409, invalid credentials 401, anything unclassified
\* 500; in particular the login failure 'Invalid email or password' is
\* answered with 401.
C13_ErrorStatusTable ==
  \A p \in Procs :
    (slot[p].pc = "done" /\ ~slot[p].res.ok /\ slot[p].res.status = 0)
      => LET msg == slot[p].res.msg
             status == errorHandler(msg)
         IN /\ msg \in {MsgInvalidId, MsgUnderage} => status = 400
            /\ msg = MsgUserNotFound => status = 404
            /\ msg = MsgEmailExists => status = 409
            /\ msg = MsgInvalidCredentials => status = 401
            /\ msg \in {MsgDeleteFailed, MsgChangePwFailed, MsgTypeError}
                 => status = 500

\* C14: an error raised by the store reaches the HTTP boundary with its
\* kind unchanged: a storage-unavailable error raised during createUser,
\* updateUser (or any other operation) is answered with 503, and a not-found
\* from update (no active row to update, or none to re-read) is answered
\* with 404, never with a generic internal failure.
C14_StoreErrorKindPreserved ==
  \A p \in Procs :
    slot[p].pc = "done"
      => /\ slot[p].storeErr # EmptyStr
              => /\ errorHandler(slot[p].storeErr) = 503
                 /\ errorHandler(slot[p].res.msg) = 503
         /\ (slot[p].op = "updateUser" /\ slot[p].storeErr = EmptyStr
               /\ slot[p].step \in {"update", "updateFindById"}
               /\ ~slot[p].res.ok)
              => errorHandler(slot[p].res.msg) = 404

\* C15: requireOwnership, for a request carrying a verified identity with
\* subject id A: if the path-supplied user id differs from A the response
\* is 403 and the downstream handler is not invoked; if the path id equals A
\* the request passes through (next is called and no response is sent).
C15_OwnershipGate ==
  \A p \in Procs :
    (slot[p].pc = "done" /\ slot[p].op = "requireOwnership"
       /\ jwtVerify(slot[p].token, jwtSecret, now) = "ok"
       /\ TruthyId(slot[p].token.userId) /\ TruthyStr(slot[p].token.email))
      => IF slot[p].id # slot[p].token.userId
         THEN slot[p].res.status = 403 /\ ~slot[p].res.next
         ELSE slot[p].res.status = 0 /\ slot[p].res.next

\* C15 witness: the holder of an issued token asks for the resource of
\* another existing user and is refused with 403
C15_Witness ==
  \E p \in Procs :
    /\ slot[p].pc = "done" /\ slot[p].op = "requireOwnership"
    /\ slot[p].token \in wallet
    /\ slot[p].id # slot[p].token.userId
    /\ \E i \in 1..Len(users) : users[i].id = slot[p].id /\ users[i].isActive
    /\ slot[p].res.status = 403

C17_OptionalAuth ==
  \A p \in Procs :
    (slot[p].pc = "done" /\ slot[p].op = "optionalAuth")
      => /\ slot[p].header # "Bearer"
              => /\ slot[p].res.next
                 /\ slot[p].res.reqUser = {}
                 /\ slot[p].res.status = 0
         /\ (slot[p].header = "Bearer" /\ slot[p].token.kind # "empty"
               /\ jwtVerify(slot[p].token, jwtSecret, now) # "ok")
              => /\ slot[p].res.status = 401
                 /\ ~slot[p].res.next
                 /\ slot[p].res.reqUser = {}

\* C17 witness: an issued token presented after its expiry on an optionally
\* authenticated route, rejected with 401
C17_Witness ==
  \E p \in Procs :
    /\ slot[p].pc = "done" /\ slot[p].op = "optionalAuth"
    /\ slot[p].header = "Bearer"
    /\ slot[p].token \in wallet
    /\ jwtVerify(slot[p].token, jwtSecret, now) = "TokenExpiredError"
    /\ slot[p].res.status = 401 /\ ~slot[p].res.next

C19_NoCredentialInResponses ==
  \A p \in Procs :
    slot[p].pc = "done"
      => \A u \in slot[p].res.user :
           /\ "password" \notin DOMAIN u
           /\ \A i \in 1..Len(users) :
                users[i].password \notin {u.email, u.firstName}

\* C19 witness: an authentication answered with the representation of the
\* user, whose entity was loaded with its credential hash
C19_Witness ==
  \E p \in Procs :
    /\ slot[p].pc = "done" /\ slot[p].op = "authenticateUser"
    /\ \E u \in slot[p].res.user :
         /\ u.id \in 1..Len(users)
         /\ users[u.id].password = bcryptHash(slot[p].password)

C21_StrengthScore ==
  \A p \in Procs :
    (slot[p].pc = "done" /\ slot[p].op = "validatePassword" /\ slot[p].res.ok)
    => \A r \in slot[p].res.info :
         LET pw == slot[p].password
             low == toLowerCase(pw)
             a == Cardinality(
                    {c \in {"length", "upper", "lower", "digit", "symbol"} :
                       \/ c = "length" /\ Len(pw) >= 8
                       \/ c = "upper" /\ \E i \in 1..Len(pw) : pw[i] \in Range(UpperLetters)
                       \/ c = "lower" /\ \E i \in 1..Len(pw) : pw[i] \in Range(LowerLetters)
                       \/ c = "digit" /\ \E i \in 1..Len(pw) : pw[i] \in DigitChars
                       \/ c = "symbol" /\ \E i \in 1..Len(pw) : pw[i] \in SymbolChars})
             w == IF \E pat \in commonPatterns : includes(low, pat) THEN 1 ELSE 0
             raw == a - 2 * w
             clamp == IF raw < 0 THEN 0 ELSE IF raw > 5 THEN 5 ELSE raw
         IN /\ r.score = clamp
            /\ r.isValid <=> (r.score >= 3 /\ w = 0)
            /\ Len(r.suggestions) <= 3

\* a weak pattern in a password that meets all five criteria: score 3, yet
\* not valid
C21_Witness ==
  \E p \in Procs :
    /\ slot[p].pc = "done" /\ slot[p].op = "validatePassword"
    /\ \E pat \in commonPatterns : includes(toLowerCase(slot[p].password), pat)
    /\ Len(slot[p].password) >= 8
    /\ \E r \in slot[p].res.info :
         r.score = 3 /\ ~r.isValid /\ Len(r.suggestions) = 2

\* C27: as long as reset is not called, every module name is mounted on the
\* application at most once and with the information of its first
\* registration; a register call whose name is already registered leaves
\* the registry (and the application) unchanged; an applyAll after one that
\* initialised the registry mounts nothing.
C27_RegistryMountsOnce ==
  /\ [](/\ \A i, j \in 1..Len(app) : app[i].name = app[j].name => i = j
        /\ \A i \in 1..Len(app) :
             \E k \in 1..Len(registry.modules) : registry.modules[k] = app[i])
  /\ [][/\ \A moduleInfo \in ModuleInfos :
            (modulesHas(registry.modules, moduleInfo.name)
             /\ SimpleRegistry_register(moduleInfo))
            => UNCHANGED <<registry, app>>
        /\ \A k \in 1..Len(registry.modules) :
            /\ Len(registry.modules') >= k
            /\ registry.modules'[k] = registry.modules[k]
        /\ registry.isInitialized => (app' = app /\ registry.isInitialized')
       ]_vars

\* two modules mounted by applyAll, a third registered afterwards
C27_Witness ==
  /\ registry.isInitialized
  /\ Len(app) = 2
  /\ Len(registry.modules) = 3

\* C22: a successful update(id, partial) changes, on the row of id, only the
\* members supplied among firstName, lastName, dateOfBirth, gender and
\* phoneNumber, and always refreshes updatedAt; id, email, the password
\* hash, isActive, isEmailVerified, emailVerifiedAt, lastLoginAt, createdAt,
\* the members not supplied and every other user's row are left unchanged.
C22_UpdateWritesOnlySupplied ==
  [][\A p \in Procs :
       (slot[p].pc = "update" /\ slot'[p].pc = "updateFindById")
         => /\ Len(users') = Len(users)
            /\ \A i \in 1..Len(users) :
                 LET old == users[i]
                     new == users'[i]
                     dto == slot[p].dto
                 IN IF old.id # slot[p].id THEN new = old
                    ELSE /\ new.updatedAt = now
                         /\ new.firstName = IF slot[p].firstName = {} THEN old.firstName
                                            ELSE CHOOSE n \in slot[p].firstName : TRUE
                         /\ new.lastName = IF "lastName" \in dto.supplied
                                           THEN dto.lastName ELSE old.lastName
                         /\ new.dateOfBirth = IF "dateOfBirth" \in dto.supplied
                                              THEN dto.dateOfBirth ELSE old.dateOfBirth
                         /\ new.gender = IF "gender" \in dto.supplied
                                         THEN dto.gender ELSE old.gender
                         /\ new.phoneNumber = IF "phoneNumber" \in dto.supplied
                                              THEN dto.phoneNumber ELSE old.phoneNumber
                         /\ \A f \in {"id", "email", "password", "isActive",
                                      "isEmailVerified", "emailVerifiedAt",
                                      "lastLoginAt", "createdAt"} :
                              new[f] = old[f]]_vars

\* an update that supplied only firstName has answered: the row created at
\* 0 carries the new firstName and updatedAt 1, its other members are as
\* created, and a second user exists
C22_Witness ==
  \E p \in Procs :
    /\ slot[p].pc = "done" /\ slot[p].op = "updateUser" /\ slot[p].res.ok
    /\ slot[p].firstName # {} /\ slot[p].dto.supplied = {}
    /\ Len(users) = 2
    /\ \E i \in 1..Len(users) :
         /\ users[i].id = slot[p].id
         /\ users[i].firstName \in slot[p].firstName
         /\ users[i].lastName \in LastNames
         /\ users[i].createdAt = 0 /\ users[i].updatedAt = 1

\* C24: getUserStats returns totalActive equal to the number of active users
\* and verifiedUsers equal to the number of active users whose email is
\* verified (both judged on the rows that its count covered).
C24_StatsCountVerifiedUsers ==
  \A p \in Procs :
    (slot[p].pc = "done" /\ slot[p].op = "getUserStats")
    => \A r \in slot[p].res.info :
         /\ r.totalActive = Cardinality(slot[p].snap)
         /\ r.verifiedUsers =
              Cardinality({u \in slot[p].snap : u.isEmailVerified})

\* C28: once a user's row is inactive, no operation of UserService or
\* AuthService changes any of its members, whatever way deleteUser
\* interleaves with an authenticateUser, updateUser, changePassword or
\* verifyEmail in flight on the same user.
C28_InactiveRowFrozen ==
  [][\A i \in 1..Len(users) :
       ~users[i].isActive => (Len(users') >= i /\ users'[i] = users[i])]_vars

\* C29: deactivation is permanent and no row is ever removed: a row whose
\* isActive is false keeps it false, and the set of ids in the store never
\* shrinks, under every sequence of service operations.
C29_DeactivationPermanent ==
  [][\A i \in 1..Len(users) :
       \E j \in 1..Len(users') :
         /\ users'[j].id = users[i].id
         /\ ~users[i].isActive => ~users'[j].isActive]_vars

\* a creation on the email of a deactivated user has been answered: the
\* old row is still there and still inactive
C29_Witness ==
  \E i \in 1..Len(users) :
    /\ ~users[i].isActive
    /\ \E p \in Procs :
         /\ slot[p].pc = "done" /\ slot[p].op = "createUser"
         /\ slot[p].step = "create"
         /\ normalizeEmail(slot[p].email) = users[i].email

\* C30: in every reachable state and for every user, isEmailVerified is true
\* exactly when emailVerifiedAt is set; a user is created unverified,
\* verifyEmail on an active user sets both together, and no operation ever
\* resets isEmailVerified to false.
C30_VerifiedFlagMatchesInstant ==
  /\ [](\A i \in 1..Len(users) :
          users[i].isEmailVerified <=> users[i].emailVerifiedAt # NullTime)
  /\ [][/\ \A i \in 1..Len(users') :
            i > Len(users) => (~users'[i].isEmailVerified
                               /\ users'[i].emailVerifiedAt = NullTime)
        /\ \A i \in 1..Len(users) :
            users[i].isEmailVerified
              => (Len(users') >= i /\ users'[i].isEmailVerified)
        /\ \A p \in Procs :
            (slot[p].pc = "verifyEmail" /\ slot'[p].pc = "done")
              => \A i \in 1..Len(users) :
                   (users[i].id = slot[p].id /\ users[i].isActive)
                     => /\ users'[i].isEmailVerified
                        /\ users'[i].emailVerifiedAt = now
                        /\ slot'[p].res.ok
        ]_vars

\* a verification that succeeded one second after the user was created
C30_Witness ==
  \E p \in Procs :
    /\ slot[p].pc = "done" /\ slot[p].op = "verifyEmail" /\ slot[p].res.ok
    /\ \E i \in 1..Len(users) :
         /\ users[i].id = slot[p].id
         /\ users[i].isEmailVerified
         /\ users[i].createdAt = 0 /\ users[i].emailVerifiedAt = 1

\* C25: for every request authenticateToken does exactly one of two things:
\* it calls next once after attaching an identity taken from a token whose
\* signature verified, which is unexpired and whose payload has both userId
\* and email; or it sends exactly one rejection (401, or 500 when no signing
\* secret is configured) without attaching an identity and without calling
\* next.
C25_GateAdmitsOrRejects ==
  \A p \in Procs :
    (slot[p].pc = "done" /\ slot[p].op = "authenticateToken")
    => LET r == slot[p].res
           token == slot[p].token
       IN \/ /\ r.next /\ r.status = 0
             /\ slot[p].header = "Bearer"
             /\ jwtSecret # "" /\ token.kind = "jwt" /\ token.sig = jwtSecret
             /\ token.exp = NoExp \/ now < token.exp
             /\ TruthyId(token.userId) /\ TruthyStr(token.email)
             /\ \E u \in r.reqUser :
                  /\ r.reqUser = {u}
                  /\ u.userId = token.userId /\ u.email = token.email
          \/ /\ ~r.next /\ r.reqUser = {}
             /\ r.status \in {401, 500}
             /\ r.status = 500 => jwtSecret = ""

\* a bearer token presented to a process that has no signing secret: the
\* request is answered 500
C25_Witness ==
  \E p \in Procs :
    /\ slot[p].pc = "done" /\ slot[p].op = "authenticateToken"
    /\ slot[p].header = "Bearer" /\ slot[p].token.kind = "jwt"
    /\ jwtSecret = ""
    /\ slot[p].res.status = 500 /\ ~slot[p].res.next
    /\ slot[p].res.reqUser = {}

\* C23: for every valid query, getAllUsers/findAll returns at most limit
\* items, total is the number of records matching the filters, totalPages
\* is ceil(total / limit), the items are the slice starting at offset
\* (page - 1) * limit of the matching records ordered by the sort field in
\* the requested direction, and when no active filter is supplied only
\* active records are matched.
C23_ListingIsSortedSlice ==
  \A p \in Procs :
    (slot[p].pc = "done" /\ slot[p].op = "getAllUsers"
       /\ slot[p].step = "findAll")
    => \A r \in slot[p].res.info :
         LET q == slot[p].query
             wanted == IF q.isActive = {} THEN {TRUE} ELSE q.isActive
             found(row) ==
               \/ q.search \subseteq {EmptyStr}
               \/ \E text \in {row.firstName, row.lastName, row.email},
                     search \in q.search :
                    ilike(text, <<"%">> \o search \o <<"%">>)
             matching == {i \in 1..Len(users) :
                            /\ users[i].isActive \in wanted
                            /\ q.gender \subseteq users[i].gender
                            /\ found(users[i])}
             offset == (q.page - 1) * q.limit
             key(i) == CASE q.sortBy = "createdAt" -> <<users[i].createdAt>>
                         [] q.sortBy = "firstName" -> users[i].firstName
                         [] q.sortBy = "lastName" -> users[i].lastName
                         [] q.sortBy = "email" -> users[i].email
             keyLess(i, j) ==
               IF q.sortBy = "createdAt" THEN key(i)[1] < key(j)[1]
               ELSE textLess(key(i), key(j))
             sorted(f) ==
               \A a, b \in DOMAIN f :
                 a < b => /\ f[a] # f[b]
                          /\ IF q.sortOrder = "asc"
                             THEN ~keyLess(f[b], f[a])
                             ELSE ~keyLess(f[a], f[b])
         IN /\ Len(r.users) <= q.limit
            /\ r.total = Cardinality(matching)
            /\ r.totalPages * q.limit >= r.total
            /\ (r.totalPages - 1) * q.limit < r.total
            /\ q.isActive = {} =>
                 \A i \in DOMAIN r.users : r.users[i].isActive
            /\ \E f \in [1..Cardinality(matching) -> matching] :
                 /\ sorted(f)
                 /\ Len(r.users) =
                      (IF r.total - offset < 0 THEN 0
                       ELSE IF r.total - offset < q.limit
                       THEN r.total - offset ELSE q.limit)
                 /\ \A i \in DOMAIN r.users :
                      r.users[i] =
                        mapToResponseDto(withoutPassword(users[f[offset + i]]))

\* the second page of one row, out of two rows that match a search and the
\* default active filter while another row is deactivated, sorted by first
\* name
C23_Witness ==
  \E p \in Procs :
    /\ slot[p].pc = "done" /\ slot[p].op = "getAllUsers"
    /\ slot[p].step = "findAll"
    /\ slot[p].query.page = 2 /\ slot[p].query.limit = 1
    /\ slot[p].query.isActive = {} /\ slot[p].query.search # {}
    /\ slot[p].query.sortBy = "firstName"
    /\ \E i \in 1..Len(users) : ~users[i].isActive
    /\ \E r \in slot[p].res.info :
         /\ r.total = 2 /\ r.totalPages = 2 /\ Len(r.users) = 1

\* C26: every user route documented as private is gated by
\* authenticateToken, and every route that reads a profile or mutates one
\* user is also gated by requireOwnership, so that no request from an
\* unauthenticated caller or from a caller authenticated as A changes or
\* deletes the record of a user B different from A: a row is written only
\* by a request that carries a bearer token signed with the process secret
\* whose userId is the id of that row.
C26_OnlyOwnerWrites ==
  [][\A i \in 1..Len(users) :
       users'[i] # users[i] =>
         \E p \in Procs :
           /\ slot[p].pc # "idle" /\ slot'[p].pc = "done"
           /\ slot[p].header = "Bearer"
           /\ slot[p].token.kind = "jwt"
           /\ slot[p].token.sig = jwtSecret
           /\ slot[p].token.userId = users[i].id]_vars

====
